---- MODULE Spec2Model ----
(***************************************************************************)
(* AITutor backend: the relational store (users, courses, modules,         *)
(* lessons, progress, usage ledger), the plan/quota policy and the request *)
(* handlers of app/api/course.py, with the lesson row lock of              *)
(* get_or_generate_lesson_content.  Every request runs in its own session  *)
(* (deps.get_db); a handler is cut into steps at the statements where it   *)
(* can block or where another request's commit can land in between.        *)
(***************************************************************************)
EXTENDS Integers, Sequences, FiniteSets, TLC

\* ------------------------------------------------------------------ bounds
MaxUsers == 2
MaxCourses == 2
MaxRequests == 2
MaxTime == 2
MaxUsage == 3
MaxQuotaUsage == 4
MaxLessons == 3
MaxProgress == 2
MaxScore == 1
MaxTrialDays == 1
TicksPerDay == 2
MaxInsightTime == 5
MaxLookback == 3
MaxRuns == 3

\* ------------------------------------------------------- program constants
FREE_DAILY_COURSE_LIMIT == 1
FREE_DAILY_LESSON_LIMIT == 2
\* admin.py:181: days: int = Query(default=14, ge=1, le=90)
DEFAULT_LOOKBACK_DAYS == 14
MIN_LOOKBACK_DAYS == 1
MAX_LOOKBACK_DAYS == 90
\* schemas/course.py:54: 10 <= len(normalized) <= 300
MIN_LEARNING_GOAL_LENGTH == 10
MAX_LEARNING_GOAL_LENGTH == 300

\* Python None of a text/JSON column, of an instant, of a row reference.
None == "None"
NoTime == -1
NoReq == 0
NoScore == -1

Req == 1..MaxRequests
UserIds == 1..MaxUsers

\* content_markdown values the generator can return: a str, possibly empty.
GeneratedContents == {"", "md1", "md2"}
\* quiz for a content: [q.model_dump() for q in generated_data.quiz]
QuizOf(content) == IF content = "" THEN "quiz0" ELSE IF content = "md1" THEN "quiz1" ELSE "quiz2"

\* Syllabi the generator can return: modules in listed order, each with its
\* order_index and the order_index of each of its lessons in listed order.
LongSyllabus == << [order_index |-> 2, lessons |-> <<2, 1>>], [order_index |-> 1, lessons |-> <<1>>] >>
ShortSyllabus == << [order_index |-> 1, lessons |-> <<1>>] >>
\* A syllabus whose modules, and whose lessons, repeat an order_index.
TiedSyllabus == << [order_index |-> 1, lessons |-> <<1, 1>>], [order_index |-> 1, lessons |-> <<1>>] >>
Syllabi == {LongSyllabus, ShortSyllabus, TiedSyllabus}

\* A str, written as its runs of equal characters: " " is whitespace, "a"
\* is any other character.  <<[ch |-> "a", n |-> 9], [ch |-> " ", n |-> 1]>>
\* is nine letters and a blank.
RunLengths == {1, 9, 10, 300, 301}
Runs == [ch : {" ", "a"}, n : RunLengths]
Texts ==
  UNION {{t \in [1..k -> Runs] : \A i \in 1..(k - 1) : t[i].ch # t[i + 1].ch} : k \in 0..MaxRuns}

\* len(str)
RECURSIVE TextLen(_)
TextLen(t) == IF t = << >> THEN 0 ELSE t[1].n + TextLen(Tail(t))

\* str.strip(): the text without its leading and trailing whitespace
RECURSIVE StripLeft(_)
StripLeft(t) == IF t # << >> /\ t[1].ch = " " THEN StripLeft(Tail(t)) ELSE t
RECURSIVE StripRight(_)
StripRight(t) ==
  IF t # << >> /\ t[Len(t)].ch = " " THEN StripRight(SubSeq(t, 1, Len(t) - 1)) ELSE t
Strip(t) == StripRight(StripLeft(t))

\* A JSON field as sent: absent, null, a string or a number.
Absent == [kind |-> "absent"]
Null == [kind |-> "null"]
Str(t) == [kind |-> "str", text |-> t]
Number == [kind |-> "number"]

\* schemas/course.py:35: the Literal's members
PreferredLevel == {"beginner", "intermediate", "advanced"}

\* Bodies of POST /generate: topic, learning_goal, preferred_level.
LevelInputs ==
  {Absent, Null, Number}
    \cup {Str(l) : l \in PreferredLevel \cup {"expert", "Beginner", " beginner", ""}}
GoalInputs == {Absent, Null, Number} \cup {Str(t) : t \in Texts}
TopicInputs == {Absent, Str(<<[ch |-> "a", n |-> 9]>>)}
CourseGenerateBodies ==
  [topic : TopicInputs, learning_goal : GoalInputs, preferred_level : LevelInputs]

\* UserProgressRequest bodies: is_completed, and quiz_score or None.
ProgressPayloads == [is_completed : BOOLEAN, quiz_score : {NoScore} \cup (1..MaxScore)]

VARIABLES
  now,        \* the UTC clock, in ticks
  users,      \* users table: id -> row
  courses,    \* courses table: id -> row
  modules,    \* modules table: id -> row
  lessons,    \* lessons table: id -> row
  progress,   \* user_progress table: id -> row
  usage,      \* llm_usage_events table: <<user_id, operation>> -> number of events
  nextId,     \* the id sequences of courses, modules, lessons, progress
  lock,       \* lesson id -> request whose transaction holds the row lock
  persisted,  \* lesson id -> number of commits that stored generated content
  req         \* request slot -> the request being served in it

vars == <<now, users, courses, modules, lessons, progress, usage, nextId, lock, persisted, req>>

store == <<users, courses, modules, lessons, progress, usage>>

\* ----------------------------------------------------------------- helpers
NoResp ==
  [status |-> 0, detail |-> "", content |-> None, quiz |-> None, cids |-> {}, plan |-> None,
   tree |-> << >>, daily |-> << >>]

\* UserProgressRequest (schemas/course.py:80-82)
NoPayload == [is_completed |-> FALSE, quiz_score |-> NoScore]

IdleReq ==
  [pc |-> "idle", op |-> "", user |-> 0, target |-> 0, plan |-> None,
   trial |-> NoTime, began |-> NoTime, prog |-> {}, seen |-> {}, found |-> 0,
   payload |-> NoPayload, raw |-> Null, body |-> Null, resp |-> NoResp]

Extend(f, k, v) == [x \in (DOMAIN f) \cup {k} |-> IF x = k THEN v ELSE f[x]]
Restrict(f, S) == [x \in S |-> f[x]]

\* course.py:16-19
get_day_window_utc ==
  LET start_of_day == now - (now % TicksPerDay)
  IN  [start_of_day |-> start_of_day, end_of_day |-> start_of_day + TicksPerDay]

\* The window without its first instant.
InWindowAfterMidnight(t) ==
  /\ t > get_day_window_utc.start_of_day
  /\ t < get_day_window_utc.end_of_day

\* course.py:35-36 and 53-54: start_of_day <= timestamp < end_of_day
InWindow(t) ==
  /\ t >= get_day_window_utc.start_of_day
  /\ t < get_day_window_utc.end_of_day

\* Lesson JOIN Module JOIN Course (inner joins: dangling rows drop out)
LessonCourse(l) == modules[lessons[l].module_id].course_id
LessonOwner(l) == courses[LessonCourse(l)].created_by
LessonsOfCourse(c) == {l \in DOMAIN lessons : LessonCourse(l) = c}
ModulesOfCourse(c) == {m \in DOMAIN modules : modules[m].course_id = c}

\* The rows of S in the order of their insertion (by id).
OrderedById(S, rows) ==
  {s \in [1..Cardinality(S) -> S] :
     /\ \A i, j \in 1..Cardinality(S) : i # j => s[i] # s[j]
     /\ \A i \in 1..(Cardinality(S) - 1) : s[i] < s[i + 1]}

\* models/course.py:29 and 45: the relationship's ORDER BY order_index.  The
\* result lists every row once, by non-decreasing order_index; rows of equal
\* order_index come in any order (there is no second sort key).
OrderedByOrderIndex(S, rows) ==
  {s \in [1..Cardinality(S) -> S] :
     /\ \A i, j \in 1..Cardinality(S) : i # j => s[i] # s[j]
     /\ \A i \in 1..(Cardinality(S) - 1) : rows[s[i]].order_index <= rows[s[i + 1]].order_index}

\* selectinload(Module.lessons), as LessonResponse (schemas/course.py:58-62)
LoadedLessons(m, ls) ==
  LET S == {l \in DOMAIN ls : ls[l].module_id = m}
  IN  {[i \in 1..Cardinality(S) |-> [id |-> s[i], order_index |-> ls[s[i]].order_index]] :
         s \in OrderedByOrderIndex(S, ls)}

\* selectinload(Course.modules).selectinload(Module.lessons), as
\* ModuleResponse (schemas/course.py:64-68): the results the load can give.
LoadedCourse(c, ms, ls) ==
  LET M == {m \in DOMAIN ms : ms[m].course_id = c}
      picks == {p \in [M -> UNION {LoadedLessons(m, ls) : m \in M}] :
                  \A m \in M : p[m] \in LoadedLessons(m, ls)}
  IN  {[i \in 1..Cardinality(M) |->
          [id |-> s[i], order_index |-> ms[s[i]].order_index, lessons |-> p[s[i]]]] :
         s \in OrderedByOrderIndex(M, ms), p \in picks}

\* The loads of the courses C: course id -> its modules with their lessons.
LoadedCourses(C, ms, ls) ==
  {t \in [C -> UNION {LoadedCourse(c, ms, ls) : c \in C}] :
     \A c \in C : t[c] \in LoadedCourse(c, ms, ls)}

\* The lookup without "Course.created_by == current_user.id".
AnyLesson(lid, u) == lid \in DOMAIN lessons

\* course.py:268-277 (and 385-391): the lookup with the ownership predicate
OwnedLesson(lid, u) == lid \in DOMAIN lessons /\ LessonOwner(lid) = u

\* The lookup without "Course.created_by == current_user.id".
AnyCourse(cid, u) == cid \in DOMAIN courses

\* course.py:201-208: the course lookup with the ownership predicate
OwnedCourse(cid, u) == cid \in DOMAIN courses /\ courses[cid].created_by = u

\* course.py:312: "if lesson.content" is Python truthiness: None and "" are false
HasContent(content) == content # None /\ content # ""

\* The count without the day window.
CoursesCreatedEver(u) ==
  Cardinality({c \in DOMAIN courses : courses[c].created_by = u})

\* course.py:32-38
CoursesCreatedToday(u) ==
  Cardinality({c \in DOMAIN courses :
                 courses[c].created_by = u /\ InWindow(courses[c].created_at)})

\* The count without the day window.
LessonsGeneratedEver(u) ==
  Cardinality({l \in DOMAIN lessons :
                 LessonOwner(l) = u /\ lessons[l].content_generated_at # NoTime})

\* course.py:47-56
LessonsGeneratedToday(u) ==
  Cardinality({l \in DOMAIN lessons :
                 /\ LessonOwner(l) = u
                 /\ lessons[l].content_generated_at # NoTime
                 /\ InWindow(lessons[l].content_generated_at)})

\* course.py:23: the trial-expiry test on the request's loaded User object
TrialExpired(r) ==
  /\ req[r].plan = "premium"
  /\ req[r].trial # NoTime
  /\ req[r].trial <= now

\* Locks a commit or rollback of request r gives back.
Released(r) == [l \in DOMAIN lock |-> IF lock[l] = r THEN NoReq ELSE lock[l]]

HTTPError(code, text) == [NoResp EXCEPT !.status = code, !.detail = text]

UsageOperations == {"course_syllabus", "lesson_content"}

RECURSIVE SumOver(_, _)
SumOver(f, S) ==
  IF S = {} THEN 0
  ELSE LET k == CHOOSE x \in S : TRUE IN f[k] + SumOver(f, S \ {k})

UsageTotal == SumOver(usage, DOMAIN usage)

\* A new request is served in the lowest free slot (slots are interchangeable).
Accepts(r) ==
  /\ req[r].pc = "idle"
  /\ \A q \in Req : q < r => req[q].pc # "idle"

\* deps.py:21-40 get_current_user: the bearer token decodes and names the
\* email of a stored user.  users[u].token says that such a token has been
\* issued (tokens are stateless: nothing revokes one).
Authenticated(u) == u \in DOMAIN users /\ users[u].token

TypeOK ==
  /\ now \in 0..MaxInsightTime
  /\ DOMAIN users \subseteq UserIds
  /\ \A l \in DOMAIN lessons : lessons[l].module_id \in DOMAIN modules
  /\ \A m \in DOMAIN modules : modules[m].course_id \in DOMAIN courses
  /\ DOMAIN lock = DOMAIN lessons
  /\ UsageTotal <= MaxUsage

\* auth.py:24-36: the row register() stores at instant 0; trial_days is what
\* runtime_settings.get_premium_trial_days returns (normalised into 0..365).
NewUser(trial_days) ==
  [plan_type |-> IF trial_days > 0 THEN "premium" ELSE "free",
   trial_expires_at |-> IF trial_days > 0 THEN trial_days * TicksPerDay ELSE NoTime,
   is_active |-> TRUE,
   is_admin |-> FALSE,
   token |-> FALSE,
   created_at |-> 0]

\* The account whose requests the lesson-generation specification follows.
Learner == 1

\* -------------------------------------------------------------------- Init
\* The accounts are registered at instant 0 and have logged in; every other
\* table is empty.
InitWith(accounts) ==
  /\ now = 0
  /\ \E days \in [accounts -> 0..MaxTrialDays] :
        users = [u \in accounts |-> [NewUser(days[u]) EXCEPT !.token = TRUE]]
  /\ courses = << >>
  /\ modules = << >>
  /\ lessons = << >>
  /\ progress = << >>
  /\ usage = [k \in UserIds \X UsageOperations |-> 0]
  /\ nextId = [course |-> 1, module |-> 1, lesson |-> 1, progress |-> 1]
  /\ lock = << >>
  /\ persisted = << >>
  /\ req = [r \in Req |-> IdleReq]

\* The clock advances.
Tick ==
  /\ now < MaxTime
  /\ now' = now + 1
  /\ UNCHANGED <<users, courses, modules, lessons, progress, usage, nextId, lock, persisted, req>>

\* deps.py:21-40: the User row as loaded into the request's session.
LoadUser(r, u, op, target) ==
  [IdleReq EXCEPT !.op = op, !.user = u, !.target = target,
                  !.plan = users[u].plan_type, !.trial = users[u].trial_expires_at]

\* ------------------------------------------ get_or_generate_lesson_content
\* course.py:267-288: lookup through course ownership, then the progress rows.
LessonBegin(r, u, lid) ==
  /\ Accepts(r)
  /\ Authenticated(u)
  /\ LET me == LoadUser(r, u, "lesson_content", lid)
     IN  IF ~OwnedLesson(lid, u)
         THEN req' = [req EXCEPT ![r] = [me EXCEPT !.pc = "closing",
                                            !.resp = HTTPError(404, "Lesson not found")]]
         ELSE req' = [req EXCEPT ![r] = [me EXCEPT !.pc = "lesson_lock",
                        !.prog = {progress[p] : p \in {q \in DOMAIN progress :
                                     progress[q].lesson_id = lid /\ progress[q].user_id = u}}]]
  /\ UNCHANGED <<now, users, courses, modules, lessons, progress, usage, nextId, lock, persisted>>

\* The gate as a lock on the whole lessons table.
LessonLockTable(r) ==
  LET lid == req[r].target
  IN  /\ req[r].pc = "lesson_lock"
      /\ lid \in DOMAIN lessons
      /\ \A l \in DOMAIN lessons : lock[l] = NoReq
      /\ lock' = [lock EXCEPT ![lid] = r]
      /\ IF HasContent(lessons[lid].content)
         THEN req' = [req EXCEPT ![r].pc = "closing",
                        ![r].resp = [NoResp EXCEPT !.status = 200,
                                       !.content = lessons[lid].content,
                                       !.quiz = lessons[lid].quiz_data,
                                       !.cids = {LessonCourse(lid)}]]
         ELSE req' = [req EXCEPT ![r].pc = "lesson_plan"]
      /\ UNCHANGED <<now, users, courses, modules, lessons, progress, usage, nextId, persisted>>

\* course.py:302-313: SELECT ... FOR UPDATE waits for the row lock, then the
\* content check on the row as locked.
LessonLock(r) ==
  LET lid == req[r].target
  IN  /\ req[r].pc = "lesson_lock"
      /\ IF lid \notin DOMAIN lessons
         THEN \* scalar_one() on no row: NoResultFound, outside the try block
              /\ req' = [req EXCEPT ![r].pc = "closing",
                                    ![r].resp = HTTPError(500, "Internal Server Error")]
              /\ UNCHANGED lock
         ELSE /\ lock[lid] = NoReq
              /\ lock' = [lock EXCEPT ![lid] = r]
              /\ IF HasContent(lessons[lid].content)
                 THEN req' = [req EXCEPT ![r].pc = "closing",
                                ![r].resp = [NoResp EXCEPT !.status = 200,
                                               !.content = lessons[lid].content,
                                               !.quiz = lessons[lid].quiz_data,
                                               !.cids = {LessonCourse(lid)}]]
                 ELSE req' = [req EXCEPT ![r].pc = "lesson_plan"]
      /\ UNCHANGED <<now, users, courses, modules, lessons, progress, usage, nextId, persisted>>

\* The downgrade returned to the caller but not stored.
ResolvePlanUnpersisted(r, next_free, next_premium, began) ==
  /\ req' = [req EXCEPT ![r].plan = IF TrialExpired(r) THEN "free" ELSE @,
                        ![r].pc = IF TrialExpired(r) \/ req[r].plan = "free"
                                  THEN next_free ELSE next_premium]
  /\ UNCHANGED <<users, lock>>

\* course.py:21-28 resolve_effective_plan, called at 130 and 317.  The
\* downgrade is committed on the request's own session: the commit ends the
\* transaction and gives back every row lock it holds; refresh reloads the row
\* in a new transaction, which starts at instant began.
ResolvePlan(r, next_free, next_premium, began) ==
  LET u == req[r].user
  IN  IF TrialExpired(r)
      THEN /\ users' = [users EXCEPT ![u].plan_type = "free"]
           /\ lock' = Released(r)
           /\ req' = [req EXCEPT ![r].plan = "free",
                                 ![r].trial = users[u].trial_expires_at,
                                 ![r].began = began,
                                 ![r].pc = next_free]
      ELSE /\ req' = [req EXCEPT ![r].pc = IF req[r].plan = "free"
                                          THEN next_free ELSE next_premium]
           /\ UNCHANGED <<users, lock>>

\* course.py:317-318.  No statement of this handler reads the database's
\* now(), so the start instant of its transactions is not kept.
LessonPlan(r) ==
  /\ req[r].pc = "lesson_plan"
  /\ ResolvePlan(r, "lesson_quota", "lesson_generate", NoTime)
  /\ UNCHANGED <<now, courses, modules, lessons, progress, usage, nextId, persisted>>

\* course.py:45-61 enforce_free_lesson_limit, called at 319
LessonQuota(r) ==
  /\ req[r].pc = "lesson_quota"
  /\ IF LessonsGeneratedToday(req[r].user) >= FREE_DAILY_LESSON_LIMIT
     THEN req' = [req EXCEPT ![r].pc = "closing",
                    ![r].resp = HTTPError(429, "Free plan limit reached")]
     ELSE req' = [req EXCEPT ![r].pc = "lesson_generate"]
  /\ UNCHANGED <<now, users, courses, modules, lessons, progress, usage, nextId, lock, persisted>>

\* course.py:63-81 log_llm_usage
log_llm_usage(u, operation) == [usage EXCEPT ![<<u, operation>>] = @ + 1]

\* The assignments of 331-332 without the quiz of 334.
StoreContentWithoutQuiz(row, content) ==
  [row EXCEPT !.content = content,
              !.content_generated_at = now]

\* course.py:331-334: the fields the handler assigns on the lesson
StoreContent(row, content) ==
  [row EXCEPT !.content = content,
              !.content_generated_at = now,
              !.quiz_data = QuizOf(content)]

\* course.py:321-340: the generator returns content; the fields and the usage
\* event are flushed and committed together.  The UPDATE needs the row lock,
\* so it waits while another transaction holds it.
\* The ledger holds fewer than cap events (a bound of the model: the code
\* sets no limit on llm_usage_events).
LessonGeneratedWithin(r, content, cap) ==
  LET lid == req[r].target
  IN  /\ req[r].pc = "lesson_generate"
      /\ UsageTotal < cap
      /\ IF lid \notin DOMAIN lessons
         THEN \* UPDATE matches no row: StaleDataError, caught at 344-347
              /\ req' = [req EXCEPT ![r].pc = "closing",
                                    ![r].resp = HTTPError(500, "LLM Generation failed")]
              /\ UNCHANGED <<lessons, usage, lock, persisted>>
         ELSE /\ lock[lid] \in {NoReq, r}
              /\ lessons' = [lessons EXCEPT ![lid] = StoreContent(@, content)]
              /\ usage' = log_llm_usage(req[r].user, "lesson_content")
              /\ persisted' = [persisted EXCEPT ![lid] = @ + 1]
              /\ lock' = Released(r)
              /\ req' = [req EXCEPT ![r].pc = "closing",
                           ![r].resp = [NoResp EXCEPT !.status = 200,
                                          !.content = content,
                                          !.quiz = QuizOf(content),
                                          !.cids = {LessonCourse(lid)}]]
      /\ UNCHANGED <<now, users, courses, modules, progress, nextId>>

\* course.py:321-340 within the ledger bound of the specifications
LessonGenerated(r, content) == LessonGeneratedWithin(r, content, MaxUsage)

\* A failure that leaves the content assigned at 331 behind.
LessonGenerationFailedHalfway(r) ==
  /\ req[r].pc = "lesson_generate"
  /\ req[r].target \in DOMAIN lessons
  /\ lessons' = [lessons EXCEPT ![req[r].target].content = "md1"]
  /\ req' = [req EXCEPT ![r].pc = "closing",
                        ![r].resp = HTTPError(500, "LLM Generation failed")]
  /\ UNCHANGED <<now, users, courses, modules, progress, usage, nextId, lock, persisted>>

\* course.py:344-347: the generator raises
LessonGenerationFailed(r) ==
  /\ req[r].pc = "lesson_generate"
  /\ req' = [req EXCEPT ![r].pc = "closing",
                        ![r].resp = HTTPError(500, "LLM Generation failed")]
  /\ UNCHANGED <<now, users, courses, modules, lessons, progress, usage, nextId, lock, persisted>>

\* A session close that keeps the transaction's row locks.
CloseKeepingLocks(r) ==
  /\ req[r].pc = "closing"
  /\ req' = [req EXCEPT ![r] = IdleReq]
  /\ UNCHANGED <<now, users, courses, modules, lessons, progress, usage, nextId, lock, persisted>>

\* deps.py:17-19: leaving "async with async_session()" closes the session:
\* an open transaction is rolled back and its row locks are given back.
Close(r) ==
  /\ req[r].pc = "closing"
  /\ lock' = Released(r)
  /\ req' = [req EXCEPT ![r] = IdleReq]
  /\ UNCHANGED <<now, users, courses, modules, lessons, progress, usage, nextId, persisted>>

\* ------------------------------------------------- generate_and_save_course
\* deps.py:21-40 get_current_user: its SELECT opens the session's transaction,
\* whose start instant is what the database's now() returns until it ends.
CourseBegin(r, u) ==
  /\ Accepts(r)
  /\ Authenticated(u)
  /\ req' = [req EXCEPT ![r] = [LoadUser(r, u, "generate_course", 0) EXCEPT
                                  !.pc = "course_plan", !.began = now]]
  /\ UNCHANGED <<now, users, courses, modules, lessons, progress, usage, nextId, lock, persisted>>

\* The validator that measures the value as sent.
normalize_learning_goal_unstripped(value) ==
  IF value.kind \in {"absent", "null"} THEN [ok |-> TRUE, value |-> Null]
  ELSE IF value.kind # "str" THEN [ok |-> FALSE, value |-> Null]
  ELSE IF Strip(value.text) = << >> THEN [ok |-> TRUE, value |-> Null]
  ELSE IF ~(MIN_LEARNING_GOAL_LENGTH <= TextLen(value.text)
              /\ TextLen(value.text) <= MAX_LEARNING_GOAL_LENGTH)
       THEN [ok |-> FALSE, value |-> Null]
  ELSE [ok |-> TRUE, value |-> Str(Strip(value.text))]

\* schemas/course.py:43-56 normalize_learning_goal (mode="before"; not run on
\* the default of an absent field), then the Optional[str] validation of what
\* it returns: a value that is not a str is returned as it is and refused.
normalize_learning_goal(value) ==
  IF value.kind \in {"absent", "null"} THEN [ok |-> TRUE, value |-> Null]
  ELSE IF value.kind # "str" THEN [ok |-> FALSE, value |-> Null]
  ELSE LET normalized == Strip(value.text)
       IN  IF normalized = << >> THEN [ok |-> TRUE, value |-> Null]
           ELSE IF ~(MIN_LEARNING_GOAL_LENGTH <= TextLen(normalized)
                       /\ TextLen(normalized) <= MAX_LEARNING_GOAL_LENGTH)
                THEN [ok |-> FALSE, value |-> Null]
           ELSE [ok |-> TRUE, value |-> Str(normalized)]

\* schemas/course.py:41: Optional[PreferredLevel] = None
ValidPreferredLevel(value) ==
  IF value.kind \in {"absent", "null"} THEN [ok |-> TRUE, value |-> Null]
  ELSE IF value.kind = "str" /\ value.text \in PreferredLevel
       THEN [ok |-> TRUE, value |-> value]
  ELSE [ok |-> FALSE, value |-> Null]

\* schemas/course.py:38-56 CourseGenerateRequest: the validated model, or a
\* ValidationError.
CourseGenerateRequest(raw) ==
  LET goal == normalize_learning_goal(raw.learning_goal)
      level == ValidPreferredLevel(raw.preferred_level)
  IN  IF raw.topic.kind = "str" /\ goal.ok /\ level.ok
      THEN [ok |-> TRUE,
            value |-> [topic |-> raw.topic, learning_goal |-> goal.value,
                       preferred_level |-> level.value]]
      ELSE [ok |-> FALSE, value |-> Null]

\* course.py:118-129: the request arrives with a body; the body is validated
\* before the handler runs, a ValidationError is answered 422.
CourseRequest(r, u) ==
  /\ Accepts(r)
  /\ Authenticated(u)
  /\ \E raw \in CourseGenerateBodies :
       LET me == [LoadUser(r, u, "generate_course", 0) EXCEPT !.raw = raw]
           request == CourseGenerateRequest(raw)
       IN  req' = [req EXCEPT ![r] =
                     IF request.ok
                     THEN [me EXCEPT !.pc = "course_plan", !.began = now,
                                     !.body = request.value]
                     ELSE [me EXCEPT !.pc = "closing",
                                     !.resp = HTTPError(422, "Unprocessable Entity")]]
  /\ UNCHANGED <<now, users, courses, modules, lessons, progress, usage, nextId, lock, persisted>>

\* course.py:130-131
CoursePlan(r) ==
  /\ req[r].pc = "course_plan"
  /\ ResolvePlan(r, "course_quota", "course_generate", now)
  /\ UNCHANGED <<now, courses, modules, lessons, progress, usage, nextId, persisted>>

\* course.py:30-43 enforce_free_course_limit, called at 132
CourseQuota(r) ==
  /\ req[r].pc = "course_quota"
  /\ IF CoursesCreatedToday(req[r].user) >= FREE_DAILY_COURSE_LIMIT
     THEN req' = [req EXCEPT ![r].pc = "closing",
                    ![r].resp = HTTPError(429, "Free plan limit reached")]
     ELSE req' = [req EXCEPT ![r].pc = "course_generate"]
  /\ UNCHANGED <<now, users, courses, modules, lessons, progress, usage, nextId, lock, persisted>>

\* Rows of a syllabus: module k of the syllabus gets id firstModule + k - 1,
\* its lessons get consecutive ids after those of the modules before it.
RECURSIVE LessonsBefore(_, _)
LessonsBefore(syl, k) ==
  IF k <= 1 THEN 0 ELSE LessonsBefore(syl, k - 1) + Len(syl[k - 1].lessons)

SyllabusLessons(syl) == LessonsBefore(syl, Len(syl) + 1)

\* course.py:156-163
NewModules(syl, cid) ==
  [m \in nextId.module .. (nextId.module + Len(syl) - 1) |->
     [course_id |-> cid, order_index |-> syl[m - nextId.module + 1].order_index]]

\* course.py:165-172
NewLessons(syl) ==
  LET first == nextId.lesson
      ModuleAt(i) == CHOOSE k \in 1..Len(syl) :
                        /\ LessonsBefore(syl, k) < i
                        /\ i <= LessonsBefore(syl, k) + Len(syl[k].lessons)
  IN  [l \in first .. (first + SyllabusLessons(syl) - 1) |->
         LET i == l - first + 1
             k == ModuleAt(i)
         IN  [module_id |-> nextId.module + k - 1,
              order_index |-> syl[k].lessons[i - LessonsBefore(syl, k)],
              content |-> None,
              quiz_data |-> None,
              content_generated_at |-> NoTime]]

Merge(f, g) == [x \in (DOMAIN f) \cup (DOMAIN g) |-> IF x \in DOMAIN g THEN g[x] ELSE f[x]]

\* course.py:134-190: the generator returns a syllabus; course, modules,
\* lessons and the usage event are committed together.  created_at is the
\* column's server default now() (models/course.py:22), the start instant of
\* the inserting transaction.
CourseGenerated(r, syl) ==
  LET cid == nextId.course
      u == req[r].user
  IN  /\ req[r].pc = "course_generate"
      /\ cid <= MaxCourses
      /\ nextId.lesson - 1 + SyllabusLessons(syl) <= MaxLessons
      /\ UsageTotal < MaxUsage
      /\ courses' = Extend(courses, cid, [created_by |-> u, created_at |-> req[r].began])
      /\ modules' = Merge(modules, NewModules(syl, cid))
      /\ lessons' = Merge(lessons, NewLessons(syl))
      /\ lock' = Merge(lock, [l \in DOMAIN NewLessons(syl) |-> NoReq])
      /\ persisted' = Merge(persisted, [l \in DOMAIN NewLessons(syl) |-> 0])
      /\ usage' = log_llm_usage(u, "course_syllabus")
      /\ nextId' = [nextId EXCEPT !.course = @ + 1,
                                  !.module = @ + Len(syl),
                                  !.lesson = @ + SyllabusLessons(syl)]
      /\ \E tree \in LoadedCourses({cid}, modules', lessons') :
            req' = [req EXCEPT ![r].pc = "closing",
                      ![r].resp = [NoResp EXCEPT !.status = 201, !.cids = {cid},
                                                 !.tree = tree]]
      /\ UNCHANGED <<now, users, progress>>

\* A failure after the flush of the course row (153) that leaves the row.
CourseGenerationFailedHalfway(r) ==
  /\ req[r].pc = "course_generate"
  /\ nextId.course <= MaxCourses
  /\ courses' = Extend(courses, nextId.course,
                       [created_by |-> req[r].user, created_at |-> req[r].began])
  /\ nextId' = [nextId EXCEPT !.course = @ + 1]
  /\ req' = [req EXCEPT ![r].pc = "closing",
                        ![r].resp = HTTPError(500, "LLM Generation failed")]
  /\ UNCHANGED <<now, users, modules, lessons, progress, usage, lock, persisted>>

\* course.py:140-141: the generator raises
CourseGenerationFailed(r) ==
  /\ req[r].pc = "course_generate"
  /\ req' = [req EXCEPT ![r].pc = "closing",
                        ![r].resp = HTTPError(500, "LLM Generation failed")]
  /\ UNCHANGED <<now, users, courses, modules, lessons, progress, usage, nextId, lock, persisted>>

\* ------------------------------------------------------------- get_course
\* course.py:192-214
GetCourse(r, u, cid) ==
  /\ Accepts(r)
  /\ Authenticated(u)
  /\ LET me == [LoadUser(r, u, "get_course", cid) EXCEPT !.pc = "closing"]
         found == IF OwnedCourse(cid, u) THEN {cid} ELSE {}
     IN  \E tree \in LoadedCourses(found, modules, lessons) :
           req' = [req EXCEPT ![r] =
                     IF found = {}
                     THEN [me EXCEPT !.resp = HTTPError(404, "Course not found")]
                     ELSE [me EXCEPT !.resp = [NoResp EXCEPT !.status = 200, !.cids = found,
                                                            !.tree = tree]]]
  /\ UNCHANGED <<now, users, courses, modules, lessons, progress, usage, nextId, lock, persisted>>

\* course.py:237-255
GetUserCourses(r, u) ==
  /\ Accepts(r)
  /\ Authenticated(u)
  /\ LET mine == {c \in DOMAIN courses : courses[c].created_by = u}
     IN  \E tree \in LoadedCourses(mine, modules, lessons) :
           req' = [req EXCEPT ![r] = [LoadUser(r, u, "get_user_courses", 0) EXCEPT
                      !.pc = "closing",
                      !.resp = [NoResp EXCEPT !.status = 200, !.cids = mine, !.tree = tree]]]
  /\ UNCHANGED <<now, users, courses, modules, lessons, progress, usage, nextId, lock, persisted>>

\* ---------------------------------------------------------- delete_course
\* course.py:225-234: the lookup with the ownership predicate, then
\* db.delete(course), which loads the rows the cascades reach (modules,
\* lessons, progress) and marks those for deletion.
DeleteBegin(r, u, cid) ==
  /\ Accepts(r)
  /\ Authenticated(u)
  /\ LET me == LoadUser(r, u, "delete_course", cid)
     IN  req' = [req EXCEPT ![r] =
                   IF OwnedCourse(cid, u)
                   THEN [me EXCEPT !.pc = "delete_commit",
                           !.seen = {p \in DOMAIN progress :
                                       progress[p].lesson_id \in LessonsOfCourse(cid)}]
                   ELSE [me EXCEPT !.pc = "closing",
                                   !.resp = HTTPError(404, "Course not found")]]
  /\ UNCHANGED <<now, users, courses, modules, lessons, progress, usage, nextId, lock, persisted>>

\* The delete of the course row alone.
DeleteCommitWithoutCascade(r) ==
  LET cid == req[r].target
  IN  /\ req[r].pc = "delete_commit"
      /\ cid \in DOMAIN courses
      /\ courses' = Restrict(courses, DOMAIN courses \ {cid})
      /\ req' = [req EXCEPT ![r].pc = "closing",
                            ![r].resp = [NoResp EXCEPT !.status = 204]]
      /\ UNCHANGED <<now, users, modules, lessons, progress, usage, nextId, lock, persisted>>

\* course.py:235 with the cascades of models/course.py:25-61: the flush
\* deletes the marked progress rows, lessons and modules, then the course.
\* DELETE of a lesson waits for its row lock, and fails on the foreign key of
\* a progress row that was inserted after the rows were marked.
DeleteCommit(r) ==
  LET cid == req[r].target
      gone == LessonsOfCourse(cid)
      rows == {p \in DOMAIN progress : progress[p].lesson_id \in gone}
  IN  /\ req[r].pc = "delete_commit"
      /\ IF cid \notin DOMAIN courses
         THEN \* deleted by another request meanwhile: the DELETEs match no row,
              \* which the ORM reports as a warning or as StaleDataError
              /\ \E answer \in {[NoResp EXCEPT !.status = 204],
                                 HTTPError(500, "Internal Server Error")} :
                    req' = [req EXCEPT ![r].pc = "closing", ![r].resp = answer]
              /\ UNCHANGED <<courses, modules, lessons, progress, lock, persisted>>
         ELSE /\ \A l \in gone : lock[l] \in {NoReq, r}
              /\ IF ~(rows \subseteq req[r].seen)
                 THEN \* IntegrityError: the transaction is rolled back
                      /\ req' = [req EXCEPT ![r].pc = "closing",
                                   ![r].resp = HTTPError(500, "Internal Server Error")]
                      /\ UNCHANGED <<courses, modules, lessons, progress, lock, persisted>>
                 ELSE /\ courses' = Restrict(courses, DOMAIN courses \ {cid})
                      /\ modules' = Restrict(modules, DOMAIN modules \ ModulesOfCourse(cid))
                      /\ lessons' = Restrict(lessons, DOMAIN lessons \ gone)
                      /\ progress' = Restrict(progress, DOMAIN progress \ rows)
                      /\ lock' = Restrict(lock, DOMAIN lock \ gone)
                      /\ persisted' = Restrict(persisted, DOMAIN persisted \ gone)
                      /\ req' = [req EXCEPT ![r].pc = "closing",
                                            ![r].resp = [NoResp EXCEPT !.status = 204]]
      /\ UNCHANGED <<now, users, usage, nextId>>

\* ------------------------------------------------------ get_course_progress
\* course.py:349-373
GetCourseProgress(r, u, cid) ==
  /\ Accepts(r)
  /\ Authenticated(u)
  /\ LET me == [LoadUser(r, u, "get_course_progress", cid) EXCEPT !.pc = "closing"]
         rows == {p \in DOMAIN progress :
                    /\ progress[p].lesson_id \in DOMAIN lessons
                    /\ LessonCourse(progress[p].lesson_id) = cid
                    /\ progress[p].user_id = u}
     IN  req' = [req EXCEPT ![r] =
                   IF OwnedCourse(cid, u)
                   THEN [me EXCEPT !.prog = {progress[p] : p \in rows},
                                   !.resp = [NoResp EXCEPT !.status = 200, !.cids = {cid}]]
                   ELSE [me EXCEPT !.resp = HTTPError(404, "Course not found")]]
  /\ UNCHANGED <<now, users, courses, modules, lessons, progress, usage, nextId, lock, persisted>>

\* --------------------------------------------------- update_lesson_progress
\* course.py:385-401: ownership lookup, then the existing row if any
ProgressBegin(r, u, lid, payload) ==
  /\ Accepts(r)
  /\ Authenticated(u)
  /\ LET me == [LoadUser(r, u, "update_progress", lid) EXCEPT !.payload = payload]
         rows == {p \in DOMAIN progress :
                    progress[p].lesson_id = lid /\ progress[p].user_id = u}
     IN  req' = [req EXCEPT ![r] =
                   IF ~OwnedLesson(lid, u)
                   THEN [me EXCEPT !.pc = "closing",
                                   !.resp = HTTPError(404, "Lesson not found")]
                   ELSE IF Cardinality(rows) > 1
                   THEN \* scalar_one_or_none() on several rows: MultipleResultsFound
                        [me EXCEPT !.pc = "closing",
                                   !.resp = HTTPError(500, "Internal Server Error")]
                   ELSE [me EXCEPT !.pc = "progress_commit",
                                   !.found = IF rows = {} THEN 0 ELSE CHOOSE p \in rows : TRUE]]
  /\ UNCHANGED <<now, users, courses, modules, lessons, progress, usage, nextId, lock, persisted>>

\* The update that stores the request's quiz_score whatever it is.
UpdatedProgressOverwriting(row, payload) ==
  [row EXCEPT !.is_completed = payload.is_completed,
              !.quiz_score = payload.quiz_score]

\* course.py:403-406: the update in place
UpdatedProgress(row, payload) ==
  [row EXCEPT !.is_completed = payload.is_completed,
              !.quiz_score = IF payload.quiz_score # NoScore
                             THEN payload.quiz_score ELSE @]

\* course.py:403-418
ProgressCommit(r) ==
  LET lid == req[r].target
      u == req[r].user
      p == req[r].found
      ok == [NoResp EXCEPT !.status = 200,
                           !.cids = IF lid \in DOMAIN lessons THEN {LessonCourse(lid)} ELSE {}]
  IN  /\ req[r].pc = "progress_commit"
      /\ IF p # 0
         THEN IF p \in DOMAIN progress
              THEN /\ progress' = [progress EXCEPT ![p] = UpdatedProgress(@, req[r].payload)]
                   /\ req' = [req EXCEPT ![r].pc = "closing", ![r].resp = ok]
                   /\ UNCHANGED nextId
              ELSE \* the row was deleted meanwhile: StaleDataError
                   /\ req' = [req EXCEPT ![r].pc = "closing",
                                ![r].resp = HTTPError(500, "Internal Server Error")]
                   /\ UNCHANGED <<progress, nextId>>
         ELSE IF lid \in DOMAIN lessons
              THEN \* the INSERT's foreign-key check takes a key-share lock on
                   \* the lesson row, which waits for a FOR UPDATE holder
                   /\ lock[lid] = NoReq
                   /\ nextId.progress <= MaxProgress
                   /\ progress' = Extend(progress, nextId.progress,
                                    [user_id |-> u, lesson_id |-> lid,
                                     is_completed |-> req[r].payload.is_completed,
                                     quiz_score |-> req[r].payload.quiz_score])
                   /\ nextId' = [nextId EXCEPT !.progress = @ + 1]
                   /\ req' = [req EXCEPT ![r].pc = "closing", ![r].resp = ok]
              ELSE \* the lesson was deleted meanwhile: foreign key violation
                   /\ req' = [req EXCEPT ![r].pc = "closing",
                                ![r].resp = HTTPError(500, "Internal Server Error")]
                   /\ UNCHANGED <<progress, nextId>>
      /\ UNCHANGED <<now, users, courses, modules, lessons, usage, lock, persisted>>

\* -------------------------------------------------------------------- auth
\* auth.py:42-60 login: unknown email or wrong password is 401, an inactive
\* account is 403, otherwise an access token for the email is issued.
Login(r, u, password_ok) ==
  /\ Accepts(r)
  /\ u \in DOMAIN users
  /\ LET me == [IdleReq EXCEPT !.op = "login", !.user = u, !.pc = "closing"]
     IN  IF ~password_ok
         THEN /\ req' = [req EXCEPT ![r] =
                         [me EXCEPT !.resp = HTTPError(401, "Incorrect email or password")]]
              /\ UNCHANGED users
         ELSE IF ~users[u].is_active
         THEN /\ req' = [req EXCEPT ![r] =
                         [me EXCEPT !.resp = HTTPError(403, "Inactive user account")]]
              /\ UNCHANGED users
         ELSE /\ req' = [req EXCEPT ![r] = [me EXCEPT !.resp = [NoResp EXCEPT !.status = 200]]]
              /\ users' = [users EXCEPT ![u].token = TRUE]
  /\ UNCHANGED <<now, courses, modules, lessons, progress, usage, nextId, lock, persisted>>

\* auth.py:62-64 read_users_me: the User row as get_current_user loaded it
ReadUsersMe(r, u) ==
  /\ Accepts(r)
  /\ Authenticated(u)
  /\ req' = [req EXCEPT ![r] = [LoadUser(r, u, "read_users_me", 0) EXCEPT
               !.pc = "closing",
               !.resp = [NoResp EXCEPT !.status = 200, !.plan = users[u].plan_type]]]
  /\ UNCHANGED <<now, users, courses, modules, lessons, progress, usage, nextId, lock, persisted>>

\* The admin dependency of the admin router: the caller is authenticated and
\* is_admin, or the request is refused.
get_current_admin(a) == Authenticated(a) /\ users[a].is_admin

\* admin.py:154-176 update_user_status
UpdateUserStatus(r, a, target, is_active) ==
  /\ Accepts(r)
  /\ Authenticated(a)
  /\ LET me == [LoadUser(r, a, "update_user_status", target) EXCEPT !.pc = "closing"]
     IN  IF ~get_current_admin(a)
         THEN /\ req' = [req EXCEPT ![r] = [me EXCEPT !.resp = HTTPError(403, "Forbidden")]]
              /\ UNCHANGED users
         ELSE IF target \notin DOMAIN users
         THEN /\ req' = [req EXCEPT ![r] = [me EXCEPT !.resp = HTTPError(404, "User not found")]]
              /\ UNCHANGED users
         ELSE IF users[target].is_admin
         THEN /\ req' = [req EXCEPT ![r] = [me EXCEPT !.resp =
                           HTTPError(400, "Admin status cannot be changed from this endpoint")]]
              /\ UNCHANGED users
         ELSE /\ users' = [users EXCEPT ![target].is_active = is_active]
              /\ req' = [req EXCEPT ![r] = [me EXCEPT !.resp = [NoResp EXCEPT !.status = 200]]]
  /\ UNCHANGED <<now, courses, modules, lessons, progress, usage, nextId, lock, persisted>>

\* admin.py:126-151 update_user_plan: the target row is loaded, an admin's
\* plan is refused, otherwise plan_type is set as asked and trial_expires_at
\* cleared, in one commit.
UpdateUserPlan(r, a, target, plan_type) ==
  /\ Accepts(r)
  /\ Authenticated(a)
  /\ LET me == [LoadUser(r, a, "update_user_plan", target) EXCEPT
                  !.pc = "closing", !.body = [plan_type |-> plan_type]]
     IN  IF ~get_current_admin(a)
         THEN /\ req' = [req EXCEPT ![r] = [me EXCEPT !.resp = HTTPError(403, "Forbidden")]]
              /\ UNCHANGED users
         ELSE IF target \notin DOMAIN users
         THEN /\ req' = [req EXCEPT ![r] = [me EXCEPT !.resp = HTTPError(404, "User not found")]]
              /\ UNCHANGED users
         ELSE IF users[target].is_admin
         THEN /\ req' = [req EXCEPT ![r] = [me EXCEPT !.resp =
                           HTTPError(400, "Admin plan cannot be changed from this endpoint")]]
              /\ UNCHANGED users
         ELSE /\ users' = [users EXCEPT ![target].plan_type = plan_type,
                                        ![target].trial_expires_at = NoTime]
              /\ req' = [req EXCEPT ![r] = [me EXCEPT !.resp =
                           [NoResp EXCEPT !.status = 200, !.plan = plan_type]]]
  /\ UNCHANGED <<now, courses, modules, lessons, progress, usage, nextId, lock, persisted>>

\* auth.py:15-40 register: a taken email is refused; otherwise the row is
\* stored with the trial that runtime_settings gives, counted from now, and
\* created_at is the column's server default now() (models/user.py:17).
Register(r, u, trial_days) ==
  /\ Accepts(r)
  /\ LET me == [IdleReq EXCEPT !.op = "register", !.user = u, !.pc = "closing"]
     IN  IF u \in DOMAIN users
         THEN /\ req' = [req EXCEPT ![r] = [me EXCEPT !.resp =
                   HTTPError(400, "The user with this email already exists in the system")]]
              /\ UNCHANGED users
         ELSE /\ users' = Extend(users, u,
                     [NewUser(trial_days) EXCEPT
                        !.created_at = now,
                        !.trial_expires_at = IF trial_days > 0
                                             THEN now + trial_days * TicksPerDay ELSE NoTime])
              /\ req' = [req EXCEPT ![r] = [me EXCEPT !.resp = [NoResp EXCEPT !.status = 201]]]
  /\ UNCHANGED <<now, courses, modules, lessons, progress, usage, nextId, lock, persisted>>

\* The calendar date of an instant: func.date(User.created_at) in a database
\* session whose time zone is UTC, and datetime.date() of an aware UTC
\* datetime.  Both are rendered by date.isoformat(), which is one-to-one.
DateOf(t) == t \div TicksPerDay

\* admin.py:184-199: the grouped count of the users created in the lookback
\* window, as the dict rows_by_date.
RowsByDate(days) ==
  LET lookback_start == get_day_window_utc.start_of_day - (days - 1) * TicksPerDay
      counted == {u \in DOMAIN users :
                    /\ users[u].created_at >= lookback_start
                    /\ users[u].created_at < get_day_window_utc.end_of_day}
  IN  [day \in {DateOf(users[u].created_at) : u \in counted} |->
         Cardinality({u \in counted : DateOf(users[u].created_at) = day})]

\* The listing of the rows the query returned alone.
DailyRegistrationsWithoutGaps(days) ==
  LET lookback_start == get_day_window_utc.start_of_day - (days - 1) * TicksPerDay
      all == [offset \in 1..days |->
                LET day == DateOf(lookback_start + (offset - 1) * TicksPerDay)
                IN  [date |-> day,
                     user_count |-> IF day \in DOMAIN RowsByDate(days)
                                    THEN RowsByDate(days)[day] ELSE 0]]
      Counted(entry) == entry.user_count > 0
  IN  SelectSeq(all, Counted)

\* admin.py:183-209: one DailyRegistrationStat per offset in range(days).
DailyRegistrations(days) ==
  LET lookback_start == get_day_window_utc.start_of_day - (days - 1) * TicksPerDay
  IN  [offset \in 1..days |->
         LET day == DateOf(lookback_start + (offset - 1) * TicksPerDay)
         IN  [date |-> day,
              user_count |-> IF day \in DOMAIN RowsByDate(days)
                             THEN RowsByDate(days)[day] ELSE 0]]

\* The days query parameter: absent, or an integer.
LookbackInputs ==
  [given : {FALSE}, value : {0}]
    \cup [given : {TRUE},
          value : (0..MaxLookback) \cup {MAX_LOOKBACK_DAYS, MAX_LOOKBACK_DAYS + 1}]

\* admin.py:179-260 get_admin_insights
GetAdminInsights(r, a, days_param) ==
  /\ Accepts(r)
  /\ Authenticated(a)
  /\ LET me == [LoadUser(r, a, "get_admin_insights", 0) EXCEPT !.pc = "closing"]
         days == IF days_param.given THEN days_param.value ELSE DEFAULT_LOOKBACK_DAYS
     IN  req' = [req EXCEPT ![r] =
                   IF ~get_current_admin(a)
                   THEN [me EXCEPT !.resp = HTTPError(403, "Forbidden")]
                   ELSE IF days < MIN_LOOKBACK_DAYS \/ days > MAX_LOOKBACK_DAYS
                   THEN [me EXCEPT !.resp = HTTPError(422, "Unprocessable Entity")]
                   ELSE [me EXCEPT !.target = days,
                                   !.resp = [NoResp EXCEPT !.status = 200,
                                               !.daily = DailyRegistrations(days)]]]
  /\ UNCHANGED <<now, users, courses, modules, lessons, progress, usage, nextId, lock, persisted>>

\* The clock advances, over the days an insights lookback spans.
InsightTick ==
  /\ now < MaxInsightTime
  /\ now' = now + 1
  /\ UNCHANGED <<users, courses, modules, lessons, progress, usage, nextId, lock, persisted, req>>

\* ------------------------------------------------------------ prompt inputs
\* A str as the sequence of its characters.
UpperLetters == <<"A", "B", "C", "D", "E", "F", "G", "H", "I", "J", "K", "L", "M", "N", "O", "P", "Q", "R", "S", "T", "U", "V", "W", "X", "Y", "Z">>
LowerLetters == <<"a", "b", "c", "d", "e", "f", "g", "h", "i", "j", "k", "l", "m", "n", "o", "p", "q", "r", "s", "t", "u", "v", "w", "x", "y", "z">>
Whitespace == {" ", "\t"}

\* str.lower(), character by character
LowerChar(c) ==
  IF \E i \in 1..Len(UpperLetters) : UpperLetters[i] = c
  THEN LowerLetters[CHOOSE i \in 1..Len(UpperLetters) : UpperLetters[i] = c]
  ELSE c
lower(t) == [i \in 1..Len(t) |-> LowerChar(t[i])]

\* str.strip()
RECURSIVE lstrip(_)
lstrip(t) == IF t # << >> /\ t[1] \in Whitespace THEN lstrip(Tail(t)) ELSE t
RECURSIVE rstrip(_)
rstrip(t) == IF t # << >> /\ t[Len(t)] \in Whitespace THEN rstrip(SubSeq(t, 1, Len(t) - 1)) ELSE t
strip(t) == rstrip(lstrip(t))

beginner == <<"b", "e", "g", "i", "n", "n", "e", "r">>
intermediate == <<"i", "n", "t", "e", "r", "m", "e", "d", "i", "a", "t", "e">>
advanced == <<"a", "d", "v", "a", "n", "c", "e", "d">>
english == <<"e", "n", "g", "l", "i", "s", "h">>
bengali == <<"b", "e", "n", "g", "a", "l", "i">>
hindi == <<"h", "i", "n", "d", "i">>

\* A computed str, and a str written in the source.
Chars(t) == [chars |-> t]
Literal(text) == [literal |-> text]

\* Optional[str] arguments: None, or a str.
NoStr == [none |-> TRUE]
LevelArguments ==
  {NoStr, Chars(<< >>), Chars(<<" ">>), Chars(beginner), Chars(intermediate), Chars(advanced),
   Chars(<<"A", "d", "v", "a", "n", "c", "e", "d">>),
   Chars(<<" ", "I", "N", "T", "E", "R", "M", "E", "D", "I", "A", "T", "E", "\t">>),
   Chars(<<"\t", "B", "e", "g", "i", "n", "n", "e", "r", " ">>),
   Chars(<<"e", "x", "p", "e", "r", "t">>),
   Chars(<<"b", "e", "g", "i", "n", " ", "n", "e", "r">>),
   Chars(<<"b", "e", "g", "i", "n", "n", "e", "r", "s">>)}
GoalArguments ==
  {NoStr, Chars(<< >>), Chars(<<" ", "\t">>),
   Chars(<<"B", "u", "i", "l", "d", " ", "A", "P", "I", "s">>),
   Chars(<<" ", "L", "e", "a", "r", "n", " ", "R", "u", "s", "t", "\t">>)}
LanguageArguments ==
  {NoStr, Chars(<<" ", "H", "i", "n", "d", "i">>), Chars(<<"f", "r", "e", "n", "c", "h">>)}

\* llm.py:63 and 248: preferred_level.strip().lower() if preferred_level else ""
\* ("" and None are false)
Truthy(arg) == arg # NoStr /\ arg.chars # << >>

\* The level without lower().
NormalizedLevelCaseSensitive(preferred_level) ==
  LET normalized_level == IF Truthy(preferred_level) THEN strip(preferred_level.chars) ELSE << >>
  IN  IF normalized_level \notin {beginner, intermediate, advanced} THEN << >> ELSE normalized_level

\* llm.py:248-250 (and 63-64): the level, or "" when it is none of the three
NormalizedLevel(preferred_level) ==
  LET normalized_level == IF Truthy(preferred_level)
                          THEN lower(strip(preferred_level.chars)) ELSE << >>
  IN  IF normalized_level \notin {beginner, intermediate, advanced} THEN << >> ELSE normalized_level

\* llm.py:66 and 252-253: value.strip() if value else ""
Stripped(value) == IF Truthy(value) THEN strip(value.chars) ELSE << >>

\* llm.py:67-69 and 254-256
NormalizedLanguage(language) ==
  LET normalized_language == IF Truthy(language) THEN lower(strip(language.chars)) ELSE << >>
  IN  IF normalized_language \notin {english, bengali, hindi} THEN english ELSE normalized_language

\* llm.py:57-77 build_course_syllabus_prompt_inputs
build_course_syllabus_prompt_inputs(topic, learning_goal, preferred_level, language) ==
  LET normalized_level == NormalizedLevel(preferred_level)
      normalized_goal == Stripped(learning_goal)
  IN  [topic |-> topic,
       preferred_level_context |-> IF normalized_level = << >>
                                   THEN Literal("auto-infer (beginner-safe)")
                                   ELSE Chars(normalized_level),
       learning_goal_context |-> IF normalized_goal = << >> THEN Literal("Not provided")
                                 ELSE Chars(normalized_goal),
       language_context |-> Chars(NormalizedLanguage(language))]

\* llm.py:239-286 build_lesson_prompt_inputs (the three titles are passed
\* through as they are)
build_lesson_prompt_inputs(lesson_description, learning_goal, preferred_level, language) ==
  LET normalized_level == NormalizedLevel(preferred_level)
      normalized_goal == Stripped(learning_goal)
      normalized_lesson_description == Stripped(lesson_description)
      adaptation_guidance ==
        IF normalized_level = beginner
        THEN Literal("Beginner mode: define terms before use, slower pacing, concrete analogies.")
        ELSE IF normalized_level = intermediate
        THEN Literal("Intermediate mode: brief recap of fundamentals, then deeper practical nuances.")
        ELSE IF normalized_level = advanced
        THEN Literal("Advanced mode: concise recap only, focus on tradeoffs, edge cases, and failure modes.")
        ELSE Literal("Auto-infer mode: infer likely level from course/module/lesson metadata, but remain beginner-safe and define jargon before heavy usage.")
      goal_guidance ==
        IF normalized_goal # << >>
        THEN [literal |-> "Align worked examples and practice tasks with this learner goal: ",
              chars |-> normalized_goal]
        ELSE Literal("No explicit learner goal provided. Infer intent from topic metadata and keep examples practical.")
  IN  [lesson_description_context |-> IF normalized_lesson_description = << >>
                                      THEN Literal("Not provided")
                                      ELSE Chars(normalized_lesson_description),
       preferred_level_context |-> IF normalized_level = << >>
                                   THEN Literal("auto-infer (beginner-safe)")
                                   ELSE Chars(normalized_level),
       learning_goal_context |-> IF normalized_goal = << >> THEN Literal("Not provided")
                                 ELSE Chars(normalized_goal),
       adaptation_guidance |-> adaptation_guidance,
       goal_guidance |-> goal_guidance,
       language_context |-> Chars(NormalizedLanguage(language))]

\* A call of build_course_syllabus_prompt_inputs, as generate_course_syllabus
\* makes it: the arguments are kept in raw, the result in body.
BuildSyllabusPromptInputs(r) ==
  /\ Accepts(r)
  /\ \E goal \in GoalArguments, level \in LevelArguments, language \in LanguageArguments :
       req' = [req EXCEPT ![r] = [IdleReq EXCEPT
                 !.op = "build_course_syllabus_prompt_inputs",
                 !.pc = "closing",
                 !.raw = [learning_goal |-> goal, preferred_level |-> level,
                          language |-> language],
                 !.body = build_course_syllabus_prompt_inputs("Rust", goal, level, language)]]
  /\ UNCHANGED <<now, users, courses, modules, lessons, progress, usage, nextId, lock, persisted>>

\* A call of build_lesson_prompt_inputs, as generate_lesson_content makes it.
BuildLessonPromptInputs(r) ==
  /\ Accepts(r)
  /\ \E description \in GoalArguments, goal \in GoalArguments, level \in LevelArguments,
        language \in LanguageArguments :
       req' = [req EXCEPT ![r] = [IdleReq EXCEPT
                 !.op = "build_lesson_prompt_inputs",
                 !.pc = "closing",
                 !.raw = [lesson_description |-> description, learning_goal |-> goal,
                          preferred_level |-> level, language |-> language],
                 !.body = build_lesson_prompt_inputs(description, goal, level, language)]]
  /\ UNCHANGED <<now, users, courses, modules, lessons, progress, usage, nextId, lock, persisted>>

\* ------------------------------------------------------------------- specs

\* Spec: the requests of one account for course generation and lesson
\* content, any MaxRequests of them in flight at once, on a course of three
\* lessons (one more than FREE_DAILY_LESSON_LIMIT).
Next ==
  \/ Tick
  \/ \E r \in Req, lid \in 1..nextId.lesson : LessonBegin(r, Learner, lid)
  \/ \E r \in Req : LessonLock(r)
  \/ \E r \in Req : LessonPlan(r)
  \/ \E r \in Req : LessonQuota(r)
  \/ \E r \in Req, content \in GeneratedContents : LessonGenerated(r, content)
  \/ \E r \in Req : LessonGenerationFailed(r)
  \/ \E r \in Req : CourseBegin(r, Learner)
  \/ \E r \in Req : CoursePlan(r)
  \/ \E r \in Req : CourseQuota(r)
  \/ \E r \in Req : CourseGenerated(r, LongSyllabus)
  \/ \E r \in Req : CourseGenerationFailed(r)
  \/ \E r \in Req : Close(r)

Init == InitWith({Learner})

Spec == Init /\ [][Next]_vars

\* SpecTenants: every handler of the course API, for every account, one
\* request at a time, on courses of one lesson each; progress is reported on
\* the first lesson (by its owner, by the other account, before it exists and
\* after it is deleted).
NextTenants ==
  \/ Tick
  \/ \E u \in UserIds, lid \in 1..nextId.lesson : LessonBegin(1, u, lid)
  \/ LessonLock(1)
  \/ LessonPlan(1)
  \/ LessonQuota(1)
  \/ LessonGenerated(1, "md1")
  \/ LessonGenerationFailed(1)
  \/ \E u \in UserIds : CourseBegin(1, u)
  \/ CoursePlan(1)
  \/ CourseQuota(1)
  \/ CourseGenerated(1, ShortSyllabus)
  \/ CourseGenerationFailed(1)
  \/ \E u \in UserIds, cid \in 1..nextId.course : GetCourse(1, u, cid)
  \/ \E u \in UserIds : GetUserCourses(1, u)
  \/ \E u \in UserIds, cid \in 1..nextId.course : DeleteBegin(1, u, cid)
  \/ DeleteCommit(1)
  \/ \E u \in UserIds, cid \in 1..nextId.course : GetCourseProgress(1, u, cid)
  \/ \E u \in UserIds, payload \in ProgressPayloads : ProgressBegin(1, u, 1, payload)
  \/ ProgressCommit(1)
  \/ Close(1)

InitTenants == InitWith(UserIds)

SpecTenants == InitTenants /\ [][NextTenants]_vars

\* SpecReads: course generation from every syllabus and the course reads, for
\* every account, one request at a time.
NextReads ==
  \/ Tick
  \/ \E u \in UserIds : CourseBegin(1, u)
  \/ CoursePlan(1)
  \/ CourseQuota(1)
  \/ \E syl \in Syllabi : CourseGenerated(1, syl)
  \/ CourseGenerationFailed(1)
  \/ \E u \in UserIds, cid \in 1..nextId.course : GetCourse(1, u, cid)
  \/ \E u \in UserIds : GetUserCourses(1, u)
  \/ Close(1)

SpecReads == InitTenants /\ [][NextReads]_vars

\* SpecLocks: course generation and lesson content for every account, any
\* MaxRequests of them in flight at once, on courses of one lesson each.
NextLocks ==
  \/ Tick
  \/ \E r \in Req, u \in UserIds, lid \in 1..nextId.lesson : LessonBegin(r, u, lid)
  \/ \E r \in Req : LessonLock(r)
  \/ \E r \in Req : LessonPlan(r)
  \/ \E r \in Req : LessonQuota(r)
  \/ \E r \in Req : LessonGenerated(r, "md1")
  \/ \E r \in Req : LessonGenerationFailed(r)
  \/ \E r \in Req, u \in UserIds : CourseBegin(r, u)
  \/ \E r \in Req : CoursePlan(r)
  \/ \E r \in Req : CourseQuota(r)
  \/ \E r \in Req : CourseGenerated(r, ShortSyllabus)
  \/ \E r \in Req : CourseGenerationFailed(r)
  \/ \E r \in Req : Close(r)

SpecLocks == InitTenants /\ [][NextLocks]_vars

\* SpecBodies: course generation from every request body, for one account,
\* one request at a time.
NextBodies ==
  \/ CourseRequest(1, Learner)
  \/ CoursePlan(1)
  \/ CourseQuota(1)
  \/ CourseGenerated(1, ShortSyllabus)
  \/ CourseGenerationFailed(1)
  \/ Close(1)

SpecBodies == Init /\ [][NextBodies]_vars

\* SpecPrompts: the two prompt-input builders on every combination of their
\* optional arguments.
NextPrompts ==
  \/ BuildSyllabusPromptInputs(1)
  \/ BuildLessonPromptInputs(1)
  \/ Close(1)

SpecPrompts == Init /\ [][NextPrompts]_vars

\* SpecProgress: the progress upserts, lesson generations and course deletes
\* of one account on courses of one lesson each, any MaxRequests of them in
\* flight at once; progress is reported on the first lesson.
NextProgress ==
  \/ \E r \in Req : CourseBegin(r, Learner)
  \/ \E r \in Req : CoursePlan(r)
  \/ \E r \in Req : CourseQuota(r)
  \/ \E r \in Req : CourseGenerated(r, ShortSyllabus)
  \/ \E r \in Req, payload \in ProgressPayloads : ProgressBegin(r, Learner, 1, payload)
  \/ \E r \in Req : ProgressCommit(r)
  \/ \E r \in Req, lid \in 1..nextId.lesson : LessonBegin(r, Learner, lid)
  \/ \E r \in Req : LessonLock(r)
  \/ \E r \in Req : LessonPlan(r)
  \/ \E r \in Req : LessonQuota(r)
  \/ \E r \in Req : LessonGenerated(r, "md1")
  \/ \E r \in Req : LessonGenerationFailed(r)
  \/ \E r \in Req, cid \in 1..nextId.course : DeleteBegin(r, Learner, cid)
  \/ \E r \in Req : DeleteCommit(r)
  \/ \E r \in Req : Close(r)

SpecProgress == Init /\ [][NextProgress]_vars

\* SpecAccounts: login, the current-user read, the admin's status switch and
\* course generation, one request at a time.  The last account is an admin:
\* its row was made outside the API (no handler sets is_admin), with the
\* column defaults (plan free), or promoted from a registered account (plan
\* premium with a trial), or premium without expiry.
Admin == MaxUsers

AdminRows ==
  {[NewUser(0) EXCEPT !.is_admin = TRUE],
   [NewUser(0) EXCEPT !.is_admin = TRUE, !.plan_type = "premium"]}
    \cup {[NewUser(d) EXCEPT !.is_admin = TRUE] : d \in 1..MaxTrialDays}

InitAccounts ==
  /\ now = 0
  /\ \E days \in [UserIds \ {Admin} -> 0..MaxTrialDays], admin \in AdminRows :
        users = [u \in UserIds |-> IF u = Admin THEN admin ELSE NewUser(days[u])]
  /\ courses = << >>
  /\ modules = << >>
  /\ lessons = << >>
  /\ progress = << >>
  /\ usage = [k \in UserIds \X UsageOperations |-> 0]
  /\ nextId = [course |-> 1, module |-> 1, lesson |-> 1, progress |-> 1]
  /\ lock = << >>
  /\ persisted = << >>
  /\ req = [r \in Req |-> IdleReq]

NextAccounts ==
  \/ Tick
  \/ \E u \in UserIds, password_ok \in BOOLEAN : Login(1, u, password_ok)
  \/ \E u \in UserIds : ReadUsersMe(1, u)
  \/ \E a \in UserIds, target \in 1..(MaxUsers + 1), is_active \in BOOLEAN :
        UpdateUserStatus(1, a, target, is_active)
  \/ \E u \in UserIds : CourseBegin(1, u)
  \/ CoursePlan(1)
  \/ CourseQuota(1)
  \/ CourseGenerated(1, ShortSyllabus)
  \/ CourseGenerationFailed(1)
  \/ Close(1)

SpecAccounts == InitAccounts /\ [][NextAccounts]_vars

\* SpecPlans: the admin's plan assignments while the other account's course
\* and lesson generations are in flight, any MaxRequests requests at once, on
\* courses of one lesson each.
InitPlans ==
  /\ now = 0
  /\ \E days \in [UserIds \ {Admin} -> 0..MaxTrialDays] :
        users = [u \in UserIds |->
                   IF u = Admin
                   THEN [NewUser(0) EXCEPT !.is_admin = TRUE, !.token = TRUE]
                   ELSE [NewUser(days[u]) EXCEPT !.token = TRUE]]
  /\ courses = << >>
  /\ modules = << >>
  /\ lessons = << >>
  /\ progress = << >>
  /\ usage = [k \in UserIds \X UsageOperations |-> 0]
  /\ nextId = [course |-> 1, module |-> 1, lesson |-> 1, progress |-> 1]
  /\ lock = << >>
  /\ persisted = << >>
  /\ req = [r \in Req |-> IdleReq]

NextPlans ==
  \/ Tick
  \/ \E r \in Req, a \in UserIds, target \in 1..(MaxUsers + 1), plan_type \in {"free", "premium"} :
        UpdateUserPlan(r, a, target, plan_type)
  \/ \E r \in Req, lid \in 1..nextId.lesson : LessonBegin(r, Learner, lid)
  \/ \E r \in Req : LessonLock(r)
  \/ \E r \in Req : LessonPlan(r)
  \/ \E r \in Req : LessonQuota(r)
  \/ \E r \in Req : LessonGenerated(r, "md1")
  \/ \E r \in Req : LessonGenerationFailed(r)
  \/ \E r \in Req : CourseBegin(r, Learner)
  \/ \E r \in Req : CoursePlan(r)
  \/ \E r \in Req : CourseQuota(r)
  \/ \E r \in Req : CourseGenerated(r, ShortSyllabus)
  \/ \E r \in Req : CourseGenerationFailed(r)
  \/ \E r \in Req : Close(r)

SpecPlans == InitPlans /\ [][NextPlans]_vars

\* SpecInsights: registrations over several days and the admin's insights
\* read, one request at a time.  Only the admin's row exists at the start.
InitInsights ==
  /\ now = 0
  /\ users = [u \in {Admin} |-> [NewUser(0) EXCEPT !.is_admin = TRUE, !.token = TRUE]]
  /\ courses = << >>
  /\ modules = << >>
  /\ lessons = << >>
  /\ progress = << >>
  /\ usage = [k \in UserIds \X UsageOperations |-> 0]
  /\ nextId = [course |-> 1, module |-> 1, lesson |-> 1, progress |-> 1]
  /\ lock = << >>
  /\ persisted = << >>
  /\ req = [r \in Req |-> IdleReq]

NextInsights ==
  \/ InsightTick
  \/ \E u \in UserIds, trial_days \in 0..MaxTrialDays : Register(1, u, trial_days)
  \/ \E u \in UserIds, password_ok \in BOOLEAN : Login(1, u, password_ok)
  \/ \E a \in UserIds, days \in LookbackInputs : GetAdminInsights(1, a, days)
  \/ Close(1)

SpecInsights == InitInsights /\ [][NextInsights]_vars

\* SpecQuota: the learner's requests of one day on one course of three
\* lessons, two at a time, with one generator answer and room in the ledger
\* for the course and each of its lessons.
NextQuota ==
  \/ \E r \in Req : CourseBegin(r, Learner)
  \/ \E r \in Req : CoursePlan(r)
  \/ \E r \in Req : CourseQuota(r)
  \/ \E r \in Req : CourseGenerated(r, LongSyllabus)
  \/ \E r \in Req, lid \in 1..nextId.lesson : LessonBegin(r, Learner, lid)
  \/ \E r \in Req : LessonLock(r)
  \/ \E r \in Req : LessonPlan(r)
  \/ \E r \in Req : LessonQuota(r)
  \/ \E r \in Req : LessonGeneratedWithin(r, "md1", MaxQuotaUsage)
  \/ \E r \in Req : Close(r)

SpecQuota == Init /\ [][NextQuota]_vars

\* ------------------------------------------------------------------ claims
\* Request r is past the lock gate of get_or_generate_lesson_content and has
\* not yet committed or given up (course.py:316-337).
Generating(r) ==
  /\ req[r].op = "lesson_content"
  /\ req[r].pc \in {"lesson_plan", "lesson_quota", "lesson_generate"}
  /\ req[r].target \in DOMAIN lessons

\* Request r is handing back the failure of the lesson generator.
GenerationFailure(r) ==
  /\ req[r].op = "lesson_content"
  /\ req[r].pc = "closing"
  /\ req[r].resp = HTTPError(500, "LLM Generation failed")

\* C1: for every lesson, the generator result is persisted to it by at most
\* one request, under every interleaving of concurrent requests.
C1_PersistedAtMostOnce ==
  \A l \in DOMAIN persisted : persisted[l] <= 1

\* C2: of two requests racing for one lesson only one is past the lock gate at
\* a time, and a request let through the gate after content was committed
\* returns that content instead of going on to the generator.
C2_SecondSeesCommittedContent ==
  /\ \A r \in Req : Generating(r) => lessons[req[r].target].content = None
  /\ \A r1, r2 \in Req :
       (r1 # r2 /\ Generating(r1) /\ Generating(r2)) => req[r1].target # req[r2].target

\* C3: from the lock acquisition to the commit that stores the content the
\* request holds the lesson row lock, whatever the user's plan and trial.
C3_LockHeldUntilCommit ==
  \A r \in Req : Generating(r) => lock[req[r].target] = r

\* C4: a generator failure answers 500 and writes nothing: the lesson's
\* content, quiz_data and content_generated_at are as before (null stays
\* null) and the usage ledger gains no entry.
C4_FailureWritesNothing ==
  [][\A r \in Req :
       (req[r].pc = "lesson_generate" /\ req'[r].pc = "closing" /\ req'[r].resp.status # 200)
         => /\ req'[r].resp = HTTPError(500, "LLM Generation failed")
            /\ lessons' = lessons
            /\ usage' = usage
            /\ persisted' = persisted]_vars

\* C4 witness: a failed generation is being answered and the lesson is still
\* UNGENERATED.
C4_Witness ==
  \E r \in Req :
    /\ GenerationFailure(r)
    /\ req[r].target \in DOMAIN lessons
    /\ lessons[req[r].target].content = None
    /\ lessons[req[r].target].quiz_data = None
    /\ lessons[req[r].target].content_generated_at = NoTime

\* C6: once a lesson's content is non-null, no step changes its content,
\* quiz_data or content_generated_at.
C6_GeneratedNeverChanges ==
  [][\A l \in DOMAIN lessons :
       (lessons[l].content # None /\ l \in DOMAIN lessons') => lessons'[l] = lessons[l]]_vars

\* C5 is checked under scheduling assumptions: a handler that can take its
\* next step takes it (the event loop runs every ready coroutine), and a
\* request waiting for a row lock that is free again and again gets it
\* (PostgreSQL grants a row lock to its waiters in arrival order).
Fairness ==
  \A r \in Req :
    /\ SF_vars(LessonLock(r))
    /\ WF_vars(LessonPlan(r))
    /\ WF_vars(LessonQuota(r))
    /\ WF_vars((\E content \in GeneratedContents : LessonGenerated(r, content))
                 \/ LessonGenerationFailed(r))
    /\ WF_vars(Close(r))

\* SpecFair: the requests of Spec on courses of one lesson each, with one
\* generator answer, under the scheduling assumptions.
NextFair ==
  \/ Tick
  \/ \E r \in Req, lid \in 1..nextId.lesson : LessonBegin(r, Learner, lid)
  \/ \E r \in Req : LessonLock(r)
  \/ \E r \in Req : LessonPlan(r)
  \/ \E r \in Req : LessonQuota(r)
  \/ \E r \in Req : LessonGenerated(r, "md1")
  \/ \E r \in Req : LessonGenerationFailed(r)
  \/ \E r \in Req : CourseBegin(r, Learner)
  \/ \E r \in Req : CoursePlan(r)
  \/ \E r \in Req : CourseQuota(r)
  \/ \E r \in Req : CourseGenerated(r, ShortSyllabus)
  \/ \E r \in Req : CourseGenerationFailed(r)
  \/ \E r \in Req : Close(r)

SpecFair == Init /\ [][NextFair]_vars /\ Fairness

\* C5: a row lock is held only by a request still being served, which is on
\* that lesson; a request waiting for the row lock does not wait forever; and
\* the lock a failed generation holds becomes free for a later request.
C5_LockReleasedNoneWaitsForever ==
  /\ [](\A l \in DOMAIN lock :
          lock[l] # NoReq => /\ req[lock[l]].pc \notin {"idle", "lesson_lock"}
                             /\ req[lock[l]].op = "lesson_content"
                             /\ req[lock[l]].target = l)
  /\ \A r \in Req : (req[r].pc = "lesson_lock") ~> (req[r].pc # "lesson_lock")
  /\ \A r \in Req, l \in 1..MaxLessons :
       (GenerationFailure(r) /\ l \in DOMAIN lock /\ lock[l] = r)
         ~> (l \in DOMAIN lock /\ lock[l] = NoReq)

\* C5 witness: a failed generation still holds the row lock while another
\* request for the same lesson waits for it.
C5_Witness ==
  \E r1, r2 \in Req :
    /\ GenerationFailure(r1)
    /\ req[r1].target \in DOMAIN lock
    /\ lock[req[r1].target] = r1
    /\ req[r2].pc = "lesson_lock"
    /\ req[r2].target = req[r1].target

\* Ownership as the claims state it: the course's created_by is the user.
Owns(u, c) == c \in DOMAIN courses /\ courses[c].created_by = u

OwnsLesson(u, l) ==
  /\ l \in DOMAIN lessons
  /\ lessons[l].module_id \in DOMAIN modules
  /\ Owns(u, modules[lessons[l].module_id].course_id)

\* Request r arrives in this step.
Arrives(r) == req[r].pc = "idle" /\ req'[r].pc # "idle"

\* C7: a lesson request for a lesson of another user's course is answered
\* with the NotFound error a lesson that does not exist gets, and neither
\* that answer nor anything the request does afterwards changes stored state.
C7_ForeignLessonIsNotFound ==
  [][\A r \in Req :
       /\ (Arrives(r) /\ req'[r].op = "lesson_content"
             /\ ~OwnsLesson(req'[r].user, req'[r].target))
            => /\ req'[r].pc = "closing"
               /\ req'[r].resp = HTTPError(404, "Lesson not found")
               /\ store' = store /\ lock' = lock /\ persisted' = persisted
       /\ (req[r].op = "lesson_content" /\ req[r].resp.status = 404)
            => /\ store' = store /\ lock' = lock /\ persisted' = persisted
               /\ req'[r] \in {req[r], IdleReq}]_vars

\* C7 witness: a request for an existing lesson of another user's course is
\* being answered 404.
C7_Witness ==
  \E r \in Req :
    /\ req[r].op = "lesson_content"
    /\ req[r].resp = HTTPError(404, "Lesson not found")
    /\ req[r].target \in DOMAIN lessons
    /\ ~OwnsLesson(req[r].user, req[r].target)

\* Everything stored under course c in the given tables: the course row, its
\* modules, their lessons, the progress rows on those lessons.
CourseTree(c, cs, ms, ls, ps) ==
  LET mods == {m \in DOMAIN ms : ms[m].course_id = c}
      less == {l \in DOMAIN ls : ls[l].module_id \in mods}
  IN  [course |-> IF c \in DOMAIN cs THEN {cs[c]} ELSE {},
       modules |-> Restrict(ms, mods),
       lessons |-> Restrict(ls, less),
       progress |-> Restrict(ps, {q \in DOMAIN ps : ps[q].lesson_id \in less})]

\* What a request holds of the store (course ids answered, progress rows read)
\* is of its own user's courses.
ReadsOwnOnly ==
  \A r \in Req :
    /\ \A c \in req[r].resp.cids : Owns(req[r].user, c)
    /\ \A row \in req[r].prog :
         row.user_id = req[r].user /\ OwnsLesson(req[r].user, row.lesson_id)

\* A step that changes, creates or deletes anything stored under a course is a
\* step of a request of the course's owner.
WritesOwnOnly ==
  \A c \in 1..MaxCourses :
    CourseTree(c, courses', modules', lessons', progress')
        # CourseTree(c, courses, modules, lessons, progress)
      => \E r \in Req :
           /\ req[r].pc # "idle"
           /\ req'[r] # req[r]
           /\ req[r].user = IF c \in DOMAIN courses THEN courses[c].created_by
                            ELSE courses'[c].created_by

\* A request naming a course or lesson that is not its user's is answered
\* NotFound on arrival and the store is as before.
ForeignIsNotFound ==
  \A r \in Req :
    /\ (Arrives(r) /\ req'[r].op \in {"get_course", "delete_course", "get_course_progress"}
          /\ ~Owns(req'[r].user, req'[r].target))
         => /\ req'[r].pc = "closing"
            /\ req'[r].resp = HTTPError(404, "Course not found")
            /\ req'[r].prog = {}
            /\ store' = store
    /\ (Arrives(r) /\ req'[r].op \in {"lesson_content", "update_progress"}
          /\ ~OwnsLesson(req'[r].user, req'[r].target))
         => /\ req'[r].pc = "closing"
            /\ req'[r].resp = HTTPError(404, "Lesson not found")
            /\ req'[r].prog = {}
            /\ store' = store
    /\ req[r].resp.status = 404 => store' = store

\* C8: no operation of the course API reads, modifies, deletes or creates
\* progress, lessons, modules or courses of another user's course: it acts on
\* a course of the requesting user, or answers NotFound and leaves the store
\* unchanged.
C8_OwnCoursesOnly ==
  /\ []ReadsOwnOnly
  /\ [][WritesOwnOnly /\ ForeignIsNotFound]_vars

\* C8 witness: a delete request for an existing course of another user is
\* being answered 404 and the course is stored with its lessons.
C8_Witness ==
  \E r \in Req :
    /\ req[r].op = "delete_course"
    /\ req[r].resp = HTTPError(404, "Course not found")
    /\ req[r].target \in DOMAIN courses
    /\ courses[req[r].target].created_by # req[r].user
    /\ LessonsOfCourse(req[r].target) # {}

\* The calendar day of an instant.
DayOf(t) == t \div TicksPerDay

\* The plan resolve_effective_plan is to return for user u at this instant.
EffectivelyFree(u) ==
  \/ users[u].plan_type = "free"
  \/ users[u].trial_expires_at # NoTime /\ users[u].trial_expires_at <= now

\* Lessons of u's courses whose content_generated_at is on the given day.
GeneratedOnDay(u, day) ==
  Cardinality({l \in DOMAIN lessons :
                 /\ OwnsLesson(u, l)
                 /\ lessons[l].content_generated_at # NoTime
                 /\ DayOf(lessons[l].content_generated_at) = day})

\* C9: a lesson request that gets to generating is rejected 429 exactly when
\* the effective plan is free and the user's lessons generated today number
\* FREE_DAILY_LESSON_LIMIT or more; a rejection writes nothing (the lesson
\* stays as it was, no usage event) and never reaches the generator; a
\* premium user is never rejected.
C9_LessonQuota ==
  [][\A r \in Req :
       (req'[r].op = "lesson_content" /\ req'[r] # req[r]) =>
         LET u == req'[r].user
             rejected == req'[r].resp.status = 429
         IN  /\ rejected => /\ req[r].pc = "lesson_quota"
                            /\ req'[r].pc = "closing"
                            /\ req'[r].resp = HTTPError(429, "Free plan limit reached")
                            /\ lessons' = lessons /\ usage' = usage /\ persisted' = persisted
             /\ req[r].pc = "lesson_plan" =>
                  (req'[r].pc = "lesson_quota" <=> EffectivelyFree(u))
             /\ req[r].pc = "lesson_plan" =>
                  (req'[r].pc = "lesson_generate" <=> ~EffectivelyFree(u))
             /\ req[r].pc = "lesson_quota" =>
                  /\ users[u].plan_type = "free"
                  /\ rejected <=> GeneratedOnDay(u, DayOf(now)) >= FREE_DAILY_LESSON_LIMIT
                  /\ ~rejected <=> req'[r].pc = "lesson_generate"]_vars

\* C9 witness: a request for an UNGENERATED lesson is being answered 429.
C9_Witness ==
  \E r \in Req :
    /\ req[r].op = "lesson_content"
    /\ req[r].resp = HTTPError(429, "Free plan limit reached")
    /\ req[r].target \in DOMAIN lessons
    /\ lessons[req[r].target].content = None
    /\ GeneratedOnDay(req[r].user, DayOf(now)) >= FREE_DAILY_LESSON_LIMIT

\* Stored courses of u whose created_at is on the given day.
CreatedOnDay(u, day) ==
  Cardinality({c \in DOMAIN courses : Owns(u, c) /\ DayOf(courses[c].created_at) = day})

\* C10: a course generation request is rejected 429 exactly when the
\* effective plan is free and the user's stored courses created today number
\* FREE_DAILY_COURSE_LIMIT or more; a rejection creates nothing; with the
\* limit at 1 a free user's request passes when no course of today is stored
\* (the first of a day, the first of the next day) and is rejected when one is.
C10_CourseQuota ==
  [][\A r \in Req :
       (req'[r].op = "generate_course" /\ req'[r] # req[r]) =>
         LET u == req'[r].user
             rejected == req'[r].resp.status = 429
         IN  /\ rejected => /\ req[r].pc = "course_quota"
                            /\ req'[r].pc = "closing"
                            /\ req'[r].resp = HTTPError(429, "Free plan limit reached")
                            /\ courses' = courses /\ modules' = modules
                            /\ lessons' = lessons /\ usage' = usage /\ nextId' = nextId
             /\ req[r].pc = "course_plan" =>
                  (req'[r].pc = "course_quota" <=> EffectivelyFree(u))
             /\ req[r].pc = "course_plan" =>
                  (req'[r].pc = "course_generate" <=> ~EffectivelyFree(u))
             /\ req[r].pc = "course_quota" =>
                  /\ users[u].plan_type = "free"
                  /\ rejected <=> CreatedOnDay(u, DayOf(now)) >= FREE_DAILY_COURSE_LIMIT
                  /\ ~rejected <=> req'[r].pc = "course_generate"]_vars

\* C10 witness: a free user's second course request of the day is being
\* answered 429 with the first course stored.
C10_Witness ==
  \E r \in Req :
    /\ req[r].op = "generate_course"
    /\ req[r].resp = HTTPError(429, "Free plan limit reached")
    /\ CreatedOnDay(req[r].user, DayOf(now)) = FREE_DAILY_COURSE_LIMIT

\* C11: both quota counters count exactly the items whose timestamp t has
\* midnight <= t < midnight + 1 day for the UTC day of the check: an item of
\* the previous day, even of its last instant, is not counted after midnight,
\* and an item stamped exactly at midnight is counted in the new day.
C11_DayWindowHalfOpen ==
  LET midnight == now - (now % TicksPerDay)
  IN  /\ \A t \in 0..MaxTime :
           InWindow(t) <=> (midnight <= t /\ t < midnight + TicksPerDay)
      /\ ~InWindow(midnight - 1)
      /\ InWindow(midnight)
      /\ ~InWindow(midnight + TicksPerDay)
      /\ \A u \in DOMAIN users :
           /\ LessonsGeneratedToday(u) = GeneratedOnDay(u, DayOf(now))
           /\ CoursesCreatedToday(u) = CreatedOnDay(u, DayOf(now))

\* C11 witness: it is exactly midnight; one lesson was generated at the last
\* instant of the previous day, one at this midnight, and the lesson counter
\* counts the second only.
C11_Witness ==
  /\ now > 0
  /\ now % TicksPerDay = 0
  /\ \E l1, l2 \in DOMAIN lessons :
       /\ lessons[l1].content_generated_at = now - 1
       /\ lessons[l2].content_generated_at = now
  /\ LessonsGeneratedToday(Learner) = 1

\* C12: an inactive account is refused: its login is answered 401/403 and
\* issues no token, and a request it sends to an authenticated endpoint, with
\* whatever token, is refused on arrival and leaves the store as it is.
C12_InactiveAccountRefused ==
  [][\A r \in Req :
       (Arrives(r) /\ ~users[req'[r].user].is_active) =>
         /\ req'[r].pc = "closing"
         /\ req'[r].resp.status \in {401, 403}
         /\ store' = store]_vars

\* C13: admins are exempt from plan/limit logic: whatever an admin's
\* plan_type and trial_expires_at, no generation request of theirs is answered
\* 429 and no step of such a request changes their plan_type.
C13_AdminsExempt ==
  [][\A r \in Req :
       (/\ req'[r].op \in {"generate_course", "lesson_content"}
        /\ req'[r] # req[r]
        /\ users[req'[r].user].is_admin)
         => /\ req'[r].resp.status # 429
            /\ users'[req'[r].user].plan_type = users[req'[r].user].plan_type]_vars

\* C14: resolve_effective_plan on a premium user whose trial_expires_at is
\* not after the instant of the call stores plan_type free and returns free;
\* on any other user it changes nothing and returns the stored plan; and the
\* user it leaves behind is one on which a second call is the second case
\* with the same answer (idempotence).
C14_ResolveEffectivePlan ==
  [][\A r \in Req :
       (req[r].pc \in {"lesson_plan", "course_plan"} /\ req'[r] # req[r]) =>
         LET u == req[r].user
             expired == /\ req[r].plan = "premium"
                        /\ req[r].trial # NoTime
                        /\ req[r].trial <= now
             returned == IF req'[r].pc \in {"lesson_quota", "course_quota"}
                         THEN "free" ELSE "premium"
             expiredAgain == /\ req'[r].plan = "premium"
                             /\ req'[r].trial # NoTime
                             /\ req'[r].trial <= now'
         IN  /\ expired => /\ returned = "free"
                           /\ users' = [users EXCEPT ![u].plan_type = "free"]
             /\ ~expired => /\ returned = req[r].plan
                            /\ returned = users[u].plan_type
                            /\ users' = users
                            /\ lock' = lock
             /\ req'[r].plan = returned
             /\ users'[u].plan_type = returned
             /\ ~expiredAgain
             /\ <<courses', modules', lessons', progress', usage'>>
                  = <<courses, modules, lessons, progress, usage>>]_vars

\* C14 witness: a request has just had its user's expired trial downgraded.
C14_Witness ==
  \E r \in Req :
    /\ req[r].pc \in {"lesson_quota", "course_quota"}
    /\ req[r].trial # NoTime
    /\ req[r].trial <= now
    /\ users[req[r].user].plan_type = "free"
    /\ users[req[r].user].trial_expires_at = req[r].trial

\* C15: a premium user whose trial_expires_at has passed is reported as free
\* by the next response that carries the user's plan_type (the current-user
\* endpoint), and the downgrade is in the store from then on.
C15_ExpiredTrialReadsFree ==
  [][\A r \in Req :
       (/\ Arrives(r)
        /\ req'[r].op = "read_users_me"
        /\ users[req'[r].user].plan_type = "premium"
        /\ users[req'[r].user].trial_expires_at # NoTime
        /\ users[req'[r].user].trial_expires_at <= now)
         => /\ req'[r].resp.plan = "free"
            /\ users'[req'[r].user].plan_type = "free"]_vars

\* C16: under every interleaving of update_lesson_progress requests the
\* progress store holds at most one row per (user, lesson) pair.
C16_OneRowPerUserLesson ==
  \A p, q \in DOMAIN progress :
    (progress[p].user_id = progress[q].user_id
       /\ progress[p].lesson_id = progress[q].lesson_id) => p = q

\* C17: update_lesson_progress on an existing row stores the requested
\* is_completed, stores the requested quiz_score when it is not null and keeps
\* the stored quiz_score when it is null; no other row changes.
C17_QuizScoreKept ==
  [][\A r \in Req :
       (/\ req[r].pc = "progress_commit"
        /\ req[r].found \in DOMAIN progress
        /\ req'[r].resp.status = 200)
         => LET p == req[r].found
                asked == req[r].payload
            IN  /\ DOMAIN progress' = DOMAIN progress
                /\ progress'[p].is_completed = asked.is_completed
                /\ asked.quiz_score # NoScore => progress'[p].quiz_score = asked.quiz_score
                /\ asked.quiz_score = NoScore => progress'[p].quiz_score = progress[p].quiz_score
                /\ progress'[p].user_id = progress[p].user_id
                /\ progress'[p].lesson_id = progress[p].lesson_id
                /\ \A q \in DOMAIN progress \ {p} : progress'[q] = progress[q]]_vars

\* C17 witness: an update without quiz_score has been applied to a row that
\* has a quiz score, and flipped its is_completed to FALSE.
C17_Witness ==
  \E r \in Req :
    /\ req[r].op = "update_progress"
    /\ req[r].pc = "closing"
    /\ req[r].resp.status = 200
    /\ req[r].payload = [is_completed |-> FALSE, quiz_score |-> NoScore]
    /\ req[r].found \in DOMAIN progress
    /\ progress[req[r].found].quiz_score # NoScore
    /\ ~progress[req[r].found].is_completed

\* C18: generate_and_save_course is all-or-nothing: the step that answers
\* 201 adds one course, all modules and all lessons of the syllabus (each
\* lesson with content, quiz_data and content_generated_at null) and one
\* usage event, together; every other step of such a request, a failure
\* included, leaves courses, modules, lessons and the usage ledger as they are.
C18_CourseAllOrNothing ==
  [][\A r \in Req :
       (req[r].op = "generate_course" /\ req'[r] # req[r]) =>
         LET u == req[r].user
             created == req[r].pc # "closing" /\ req'[r].resp.status = 201
             newCourses == DOMAIN courses' \ DOMAIN courses
             newModules == DOMAIN modules' \ DOMAIN modules
             newLessons == DOMAIN lessons' \ DOMAIN lessons
         IN  /\ created =>
                  /\ Cardinality(newCourses) = 1
                  /\ req'[r].resp.cids = newCourses
                  /\ \A c \in newCourses : courses'[c].created_by = u
                  /\ Cardinality(newModules) = Len(LongSyllabus)
                  /\ \A m \in newModules : modules'[m].course_id \in newCourses
                  /\ Cardinality(newLessons)
                       = Len(LongSyllabus[1].lessons) + Len(LongSyllabus[2].lessons)
                  /\ \A l \in newLessons :
                       /\ lessons'[l].module_id \in newModules
                       /\ lessons'[l].content = None
                       /\ lessons'[l].quiz_data = None
                       /\ lessons'[l].content_generated_at = NoTime
                  /\ usage' = [usage EXCEPT ![<<u, "course_syllabus">>] = @ + 1]
                  /\ \A c \in DOMAIN courses : c \in DOMAIN courses' /\ courses'[c] = courses[c]
                  /\ \A m \in DOMAIN modules : m \in DOMAIN modules' /\ modules'[m] = modules[m]
                  /\ \A l \in DOMAIN lessons : l \in DOMAIN lessons' /\ lessons'[l] = lessons[l]
             /\ ~created =>
                  /\ courses' = courses
                  /\ modules' = modules
                  /\ lessons' = lessons
                  /\ usage' = usage]_vars

\* C18 witness: a failed course generation is being answered while nothing of
\* it is stored, after an earlier one was stored whole.
C18_Witness ==
  \E r \in Req :
    /\ req[r].op = "generate_course"
    /\ req[r].resp = HTTPError(500, "LLM Generation failed")
    /\ Cardinality(DOMAIN courses) = 1
    /\ Cardinality(DOMAIN modules) = Len(LongSyllabus)
    /\ UsageTotal = 1
    /\ nextId.course = 2

\* The k-th smallest id of the set S.
NthOf(S, k) == CHOOSE x \in S : Cardinality({y \in S : y < x}) = k - 1

\* The stored modules and lessons added by a step are the syllabus syl, row
\* by row in the order the generator listed them, with its order_index values.
StoredAs(syl, newModules, ms, ls) ==
  /\ Cardinality(newModules) = Len(syl)
  /\ \A k \in 1..Len(syl) :
       LET m == NthOf(newModules, k)
           mine == {l \in DOMAIN ls : ls[l].module_id = m}
       IN  /\ ms[m].order_index = syl[k].order_index
           /\ Cardinality(mine) = Len(syl[k].lessons)
           /\ \A i \in 1..Len(syl[k].lessons) :
                ls[NthOf(mine, i)].order_index = syl[k].lessons[i]

\* A listing of rows (id, order_index) is by non-decreasing order_index.
NonDecreasing(listing) ==
  \A i \in 1..(Len(listing) - 1) : listing[i].order_index <= listing[i + 1].order_index

\* The listing names each row of S once, with its stored order_index.
ListsExactly(listing, S, rows) ==
  /\ Len(listing) = Cardinality(S)
  /\ {listing[i].id : i \in 1..Len(listing)} = S
  /\ \A i \in 1..Len(listing) : listing[i].order_index = rows[listing[i].id].order_index

\* C19: the order_index of every stored module and lesson is the generator's
\* value and never changes afterwards; every course read (the generate
\* response, get_course, get_user_courses) lists the course's modules by
\* non-decreasing order_index and, in each module, its lessons by
\* non-decreasing order_index, whatever order the generator listed them in.
C19_OrderIndexPreserved ==
  [][/\ \A m \in DOMAIN modules \cap DOMAIN modules' :
          modules'[m].order_index = modules[m].order_index
     /\ \A l \in DOMAIN lessons \cap DOMAIN lessons' :
          lessons'[l].order_index = lessons[l].order_index
     /\ (DOMAIN modules' # DOMAIN modules) =>
          \E syl \in Syllabi :
            StoredAs(syl, DOMAIN modules' \ DOMAIN modules, modules', lessons')
     /\ \A r \in Req :
          (/\ req[r].pc # "closing"
           /\ req'[r].pc = "closing"
           /\ req'[r].op \in {"generate_course", "get_course", "get_user_courses"}
           /\ req'[r].resp.status \in {200, 201})
            => /\ DOMAIN req'[r].resp.tree = req'[r].resp.cids
               /\ \A c \in req'[r].resp.cids :
                    LET listing == req'[r].resp.tree[c]
                    IN  /\ NonDecreasing(listing)
                        /\ ListsExactly(listing,
                                        {m \in DOMAIN modules' : modules'[m].course_id = c},
                                        modules')
                        /\ \A i \in 1..Len(listing) :
                             /\ NonDecreasing(listing[i].lessons)
                             /\ ListsExactly(listing[i].lessons,
                                             {l \in DOMAIN lessons' :
                                                lessons'[l].module_id = listing[i].id},
                                             lessons')]_vars

\* C19 witness: get_course answers a course whose generator listed the
\* modules, and the lessons of a module, out of order: the answer lists the
\* later-stored module first and the later-stored lesson first.
C19_Witness ==
  \E r \in Req :
    /\ req[r].op = "get_course"
    /\ req[r].resp.status = 200
    /\ \E c \in req[r].resp.cids :
         LET listing == req[r].resp.tree[c]
         IN  /\ Len(listing) = 2
             /\ listing[1].id > listing[2].id
             /\ listing[1].order_index < listing[2].order_index
             /\ Len(listing[2].lessons) = 2
             /\ listing[2].lessons[1].id > listing[2].lessons[2].id
             /\ listing[2].lessons[1].order_index < listing[2].lessons[2].order_index

\* Every module is of a stored course, every lesson of a stored module and
\* every progress row of a stored lesson.
ReferentialIntegrity ==
  /\ \A m \in DOMAIN modules : modules[m].course_id \in DOMAIN courses
  /\ \A l \in DOMAIN lessons : lessons[l].module_id \in DOMAIN modules
  /\ \A p \in DOMAIN progress : progress[p].lesson_id \in DOMAIN lessons

\* C20: when delete_course answers 204 for a course, the course and every
\* module, lesson and progress row that belonged to it are gone from the
\* store; in every reachable state every module references a stored course,
\* every lesson a stored module and every progress row a stored lesson, also
\* while a progress upsert or a lesson generation runs on the same course.
C20_DeleteCascades ==
  /\ []ReferentialIntegrity
  /\ [][\A r \in Req :
          (/\ req[r].pc = "delete_commit"
           /\ req'[r].resp.status = 204)
            => LET cid == req[r].target
               IN  /\ cid \notin DOMAIN courses'
                   /\ \A m \in ModulesOfCourse(cid) : m \notin DOMAIN modules'
                   /\ \A l \in LessonsOfCourse(cid) : l \notin DOMAIN lessons'
                   /\ \A p \in DOMAIN progress :
                        progress[p].lesson_id \in LessonsOfCourse(cid)
                          => p \notin DOMAIN progress'
                   /\ \A m \in DOMAIN modules' : modules'[m].course_id # cid]_vars

\* C20 witness: a delete has answered 204 and removed a course that had a
\* lesson with a progress row, while the other request, begun before the
\* delete, is still about to store a progress row or lesson content for
\* that lesson.
C20_Witness ==
  \E r, other \in Req :
    /\ req[r].op = "delete_course"
    /\ req[r].pc = "closing"
    /\ req[r].resp.status = 204
    /\ req[r].seen # {}
    /\ req[r].target \notin DOMAIN courses
    /\ progress = << >>
    /\ req[other].pc \in {"progress_commit", "lesson_generate"}
    /\ req[other].target \notin DOMAIN lessons

C21_DefaultWitness ==
  \E r \in Req :
    /\ req[r].op = "get_admin_insights"
    /\ req[r].resp.status = 200
    /\ Len(req[r].resp.daily) = 14

\* C22: the lesson row lock serializes only requests for the same lesson.  A
\* request at the lock gate whose own lesson row is not locked passes the
\* gate, and a request in the generator phase whose own lesson row is not
\* locked by another request stores its content, whatever other lesson rows
\* are locked and whoever holds them.
C22_LockIsPerLesson ==
  \A r \in Req :
    /\ (/\ req[r].pc = "lesson_lock"
        /\ req[r].target \in DOMAIN lessons
        /\ lock[req[r].target] = NoReq)
         => ENABLED LessonLock(r)
    /\ (/\ req[r].pc = "lesson_generate"
        /\ req[r].target \in DOMAIN lessons
        /\ lock[req[r].target] \in {NoReq, r}
        /\ UsageTotal < MaxUsage)
         => ENABLED LessonGenerated(r, "md1")

\* C22 witness: two requests of two different users, for two different
\* lessons without content, both hold their lesson's row lock and are in the
\* generator-call phase.
C22_Witness ==
  \E r, q \in Req :
    /\ r # q
    /\ req[r].pc = "lesson_generate"
    /\ req[q].pc = "lesson_generate"
    /\ req[r].target # req[q].target
    /\ req[r].user # req[q].user
    /\ req[r].target \in DOMAIN lessons
    /\ req[q].target \in DOMAIN lessons
    /\ lessons[req[r].target].content = None
    /\ lessons[req[q].target].content = None
    /\ lock[req[r].target] = r
    /\ lock[req[q].target] = q

\* The same for two lessons of one user.
C22_SameUserWitness ==
  \E r, q \in Req :
    /\ r # q
    /\ req[r].pc = "lesson_generate"
    /\ req[q].pc = "lesson_generate"
    /\ req[r].target # req[q].target
    /\ req[r].user = req[q].user
    /\ lock[req[r].target] = r
    /\ lock[req[q].target] = q

\* The texts that are the text t without the whitespace at its two ends.
StrippedTexts(t) ==
  {s \in {SubSeq(t, i, j) : i \in 1..(Len(t) + 1), j \in 0..Len(t)} :
     /\ \E i \in 1..(Len(t) + 1), j \in 0..Len(t) :
          /\ s = SubSeq(t, i, j)
          /\ \A k \in 1..(i - 1) : t[k].ch = " "
          /\ \A k \in (j + 1)..Len(t) : t[k].ch = " "
     /\ s # << >> => (s[1].ch # " " /\ s[Len(s)].ch # " ")}

\* The number of characters of a text.
Characters(t) ==
  LET Upto[k \in 0..Len(t)] == IF k = 0 THEN 0 ELSE Upto[k - 1] + t[k].n
  IN  Upto[Len(t)]

\* C23: CourseGenerateRequest accepts preferred_level only when absent, null
\* or one of beginner, intermediate, advanced; learning_goal is stripped of
\* surrounding whitespace, is null when absent, null or blank, is the stripped
\* value when its stripped length is between 10 and 300 inclusive, and is
\* refused otherwise; a body with only a topic is valid, with both optional
\* fields null.
C23_CourseGenerateRequest ==
  \A r \in Req :
    (req[r].op = "generate_course" /\ req[r].raw # Null) =>
      LET raw == req[r].raw
          refused == req[r].resp.status = 422
          level == raw.preferred_level
          goal == raw.learning_goal
          levelOk == \/ level \in {Absent, Null}
                     \/ level \in {Str("beginner"), Str("intermediate"), Str("advanced")}
          goalNull == \/ goal \in {Absent, Null}
                      \/ goal.kind = "str" /\ \A k \in 1..Len(goal.text) : goal.text[k].ch = " "
          goalKept == /\ goal.kind = "str"
                      /\ \E s \in StrippedTexts(goal.text) :
                           /\ s # << >>
                           /\ Characters(s) >= 10
                           /\ Characters(s) <= 300
      IN  /\ refused <=> ~(raw.topic.kind = "str" /\ levelOk /\ (goalNull \/ goalKept))
          /\ ~refused =>
               /\ req[r].body.topic = raw.topic
               /\ req[r].body.preferred_level = (IF level = Absent THEN Null ELSE level)
               /\ goalNull => req[r].body.learning_goal = Null
               /\ goalKept => /\ req[r].body.learning_goal.kind = "str"
                              /\ req[r].body.learning_goal.text \in StrippedTexts(goal.text)
          /\ (goal = Absent /\ level = Absent /\ raw.topic.kind = "str") =>
               /\ ~refused
               /\ req[r].body.learning_goal = Null
               /\ req[r].body.preferred_level = Null

\* C23 witness: a learning goal of ten characters between blanks is accepted
\* as the ten characters, with a level of the list, and the course is being
\* generated.
C23_Witness ==
  \E r \in Req :
    /\ req[r].op = "generate_course"
    /\ req[r].pc = "course_generate"
    /\ req[r].raw # Null
    /\ req[r].raw.learning_goal =
         Str(<<[ch |-> " ", n |-> 1], [ch |-> "a", n |-> 10], [ch |-> " ", n |-> 300]>>)
    /\ req[r].body.learning_goal = Str(<<[ch |-> "a", n |-> 10]>>)
    /\ req[r].body.preferred_level = Str("advanced")

\* The text s is the text t without the whitespace at its two ends.
Trimmed(s, t) ==
  \E i \in 1..(Len(t) + 1), j \in 0..Len(t) :
    /\ s = SubSeq(t, i, j)
    /\ \A k \in 1..(i - 1) : t[k] \in {" ", "\t"}
    /\ \A k \in (j + 1)..Len(t) : t[k] \in {" ", "\t"}
    /\ s # << >> => (s[1] \notin {" ", "\t"} /\ s[Len(s)] \notin {" ", "\t"})

\* The text s is the lower-case word w up to the case of its letters.
SameIgnoringCase(s, w) ==
  /\ Len(s) = Len(w)
  /\ \A k \in 1..Len(w) :
       \/ s[k] = w[k]
       \/ \E i \in 1..26 : LowerLetters[i] = w[k] /\ UpperLetters[i] = s[k]

\* The level word that an argument names after trimming, in any case.
LevelNamed(arg) ==
  {w \in {beginner, intermediate, advanced} :
     /\ arg # NoStr
     /\ \E i \in 1..(Len(arg.chars) + 1), j \in 0..Len(arg.chars) :
          /\ Trimmed(SubSeq(arg.chars, i, j), arg.chars)
          /\ SameIgnoringCase(SubSeq(arg.chars, i, j), w)}

\* An optional argument is missing or blank.
Blank(arg) == arg = NoStr \/ \A k \in 1..Len(arg.chars) : arg.chars[k] \in {" ", "\t"}

\* C24: both prompt-input builders report preferred_level in lower case when,
\* trimmed and compared without regard to case, it is beginner, intermediate
\* or advanced, and as "auto-infer (beginner-safe)" otherwise; a missing or
\* blank learning goal or lesson description is "Not provided", another one is
\* reported trimmed; for lessons the adaptation guidance is that of the
\* normalized level (Auto-infer mode when none) and the goal guidance is the
\* alignment text exactly when a goal is present.
C24_PromptInputs ==
  \A r \in Req :
    (req[r].op \in {"build_course_syllabus_prompt_inputs", "build_lesson_prompt_inputs"}) =>
      LET args == req[r].raw
          out == req[r].body
          named == LevelNamed(args.preferred_level)
      IN  /\ \A w \in named : out.preferred_level_context = Chars(w)
          /\ named = {} => out.preferred_level_context = Literal("auto-infer (beginner-safe)")
          /\ Blank(args.learning_goal) => out.learning_goal_context = Literal("Not provided")
          /\ ~Blank(args.learning_goal) =>
               /\ DOMAIN out.learning_goal_context = {"chars"}
               /\ Trimmed(out.learning_goal_context.chars, args.learning_goal.chars)
          /\ req[r].op = "build_lesson_prompt_inputs" =>
               /\ Blank(args.lesson_description) =>
                    out.lesson_description_context = Literal("Not provided")
               /\ ~Blank(args.lesson_description) =>
                    /\ DOMAIN out.lesson_description_context = {"chars"}
                    /\ Trimmed(out.lesson_description_context.chars, args.lesson_description.chars)
               /\ beginner \in named => out.adaptation_guidance =
                    Literal("Beginner mode: define terms before use, slower pacing, concrete analogies.")
               /\ intermediate \in named => out.adaptation_guidance =
                    Literal("Intermediate mode: brief recap of fundamentals, then deeper practical nuances.")
               /\ advanced \in named => out.adaptation_guidance =
                    Literal("Advanced mode: concise recap only, focus on tradeoffs, edge cases, and failure modes.")
               /\ named = {} => out.adaptation_guidance =
                    Literal("Auto-infer mode: infer likely level from course/module/lesson metadata, but remain beginner-safe and define jargon before heavy usage.")
               /\ ~Blank(args.learning_goal) =>
                    /\ DOMAIN out.goal_guidance = {"literal", "chars"}
                    /\ out.goal_guidance.literal =
                         "Align worked examples and practice tasks with this learner goal: "
                    /\ out.goal_guidance.chars = out.learning_goal_context.chars
               /\ Blank(args.learning_goal) => out.goal_guidance =
                    Literal("No explicit learner goal provided. Infer intent from topic metadata and keep examples practical.")

\* C24 witness: the lesson builder was given " INTERMEDIATE" with a tab after
\* it and a goal between whitespace, and reports intermediate, the trimmed
\* goal and the alignment text.
C24_Witness ==
  \E r \in Req :
    /\ req[r].op = "build_lesson_prompt_inputs"
    /\ req[r].raw.preferred_level # NoStr
    /\ Len(req[r].raw.preferred_level.chars) = Len(intermediate) + 2
    /\ req[r].body.preferred_level_context = Chars(intermediate)
    /\ req[r].raw.learning_goal # NoStr
    /\ req[r].raw.learning_goal.chars # << >>
    /\ req[r].raw.learning_goal.chars[1] = " "
    /\ DOMAIN req[r].body.goal_guidance = {"literal", "chars"}
    /\ req[r].body.goal_guidance.chars[1] = "L"

\* C25: a plan assigned by an admin through update_user_plan is stable: the
\* call stores the plan_type it was asked for and clears trial_expires_at,
\* and afterwards (the row has no trial_expires_at) no plan resolution,
\* course generation or lesson generation changes the user's plan_type: only
\* another update_user_plan does.
C25_AssignedPlanStable ==
  [][/\ \A r \in Req :
          (/\ req[r].pc = "idle"
           /\ req'[r].op = "update_user_plan"
           /\ req'[r].resp.status = 200)
            => /\ users'[req'[r].target].plan_type = req'[r].body.plan_type
               /\ users'[req'[r].target].trial_expires_at = NoTime
     /\ \A u \in DOMAIN users :
          (/\ users[u].trial_expires_at = NoTime
           /\ users'[u].plan_type # users[u].plan_type)
            => \E r \in Req :
                 /\ req[r].pc = "idle"
                 /\ req'[r].op = "update_user_plan"
                 /\ req'[r].target = u
                 /\ req'[r].resp.status = 200]_vars

\* What holds instead: a request that loaded the user row after the
\* assignment (with no trial_expires_at) never changes plan_type.
C25_LaterRequestsKeepPlan ==
  [][\A r \in Req :
       (/\ req[r].op \in {"generate_course", "lesson_content"}
        /\ req[r].trial = NoTime
        /\ req'[r] # req[r])
         => users'[req[r].user].plan_type = users[req[r].user].plan_type]_vars

\* The effective plan of user u is free at every instant of the given day:
\* the row never had a trial and is free, or its trial ended by the day's
\* first instant (no handler of these specifications raises a plan).
FreeThroughout(u, day) ==
  \/ users[u].trial_expires_at = NoTime /\ users[u].plan_type = "free"
  \/ users[u].trial_expires_at # NoTime /\ users[u].trial_expires_at <= day * TicksPerDay

\* C26: for every user whose effective plan is free throughout a UTC day, the
\* lessons of that user's courses with content_generated_at in that day never
\* number more than FREE_DAILY_LESSON_LIMIT, under every interleaving of the
\* user's concurrent lesson requests for different lessons.
C26_LessonLimitUnderConcurrency ==
  \A u \in DOMAIN users, day \in 0..DayOf(now) :
    FreeThroughout(u, day) => GeneratedOnDay(u, day) <= FREE_DAILY_LESSON_LIMIT

\* C27: for every user whose effective plan is free throughout a UTC day, the
\* courses created by that user in that day never number more than
\* FREE_DAILY_COURSE_LIMIT, under every interleaving of the user's concurrent
\* course generation requests.
C27_CourseLimitUnderConcurrency ==
  \A u \in DOMAIN users, day \in 0..DayOf(now) :
    FreeThroughout(u, day) => CreatedOnDay(u, day) <= FREE_DAILY_COURSE_LIMIT

\* Lesson l has none of content, quiz_data and content_generated_at.
Ungenerated(l) ==
  /\ lessons[l].content = None
  /\ lessons[l].quiz_data = None
  /\ lessons[l].content_generated_at = NoTime

\* Lesson l has all of content, quiz_data and content_generated_at.
FullyGenerated(l) ==
  /\ lessons[l].content # None
  /\ lessons[l].quiz_data # None
  /\ lessons[l].content_generated_at # NoTime

\* C28: in every state each lesson's content, quiz_data and
\* content_generated_at are all null or all non-null; a lesson row is created
\* with all three null, and a step that changes any of the three on a stored
\* lesson sets all three.
C28_LessonFieldsTogether ==
  /\ [](\A l \in DOMAIN lessons : Ungenerated(l) \/ FullyGenerated(l))
  /\ [][\A l \in DOMAIN lessons' :
          /\ l \notin DOMAIN lessons => Ungenerated(l)'
          /\ (l \in DOMAIN lessons /\ lessons'[l] # lessons[l]) =>
               /\ FullyGenerated(l)'
               /\ lessons'[l].content_generated_at = now
               /\ lessons'[l].quiz_data = QuizOf(lessons'[l].content)]_vars

\* C28 witness: of the lessons of one course, one has been generated and has
\* all three fields while another still has none.
C28_Witness ==
  \E l1, l2 \in DOMAIN lessons :
    /\ LessonCourse(l1) = LessonCourse(l2)
    /\ FullyGenerated(l1)
    /\ persisted[l1] > 0
    /\ Ungenerated(l2)

\* The requests whose lesson generation commits in this step.
CommittingLesson ==
  {r \in Req : req[r].pc = "lesson_generate" /\ req'[r].resp.status = 200}

\* The requests whose course is created in this step.
CommittingCourse ==
  {r \in Req : req[r].pc = "course_generate" /\ req'[r].resp.status = 201}

\* The events of one operation in the ledger, over all users.
EventsOf(operation) ==
  SumOver(usage, {k \in DOMAIN usage : k[2] = operation})

\* The lessons that have ever been generated.
EverGenerated == {l \in DOMAIN persisted : persisted[l] > 0}

\* The ledger gains one event of the committing request's user and operation
\* in the step that stores the lesson content or creates the course, and is
\* left as it was by every other step (cached content, 429, 404, 500, a
\* generator failure); no count goes down.
OneEventPerCommit ==
  /\ usage' = [k \in DOMAIN usage |->
                 usage[k]
                 + Cardinality({r \in CommittingLesson :
                                  k = <<req[r].user, "lesson_content">>})
                 + Cardinality({r \in CommittingCourse :
                                  k = <<req[r].user, "course_syllabus">>})]
  /\ \A r \in CommittingLesson :
        /\ lessons'[req[r].target].content = req'[r].resp.content
        /\ lessons'[req[r].target].content # None
        /\ persisted'[req[r].target] = persisted[req[r].target] + 1
  /\ \A r \in CommittingCourse :
        /\ DOMAIN courses' \ DOMAIN courses = req'[r].resp.cids
        /\ \A c \in req'[r].resp.cids : courses'[c].created_by = req[r].user
  /\ (CommittingLesson = {} => persisted' = [l \in DOMAIN persisted' |->
         IF l \in DOMAIN persisted THEN persisted[l] ELSE 0])
  /\ (CommittingCourse = {} => DOMAIN courses' \subseteq DOMAIN courses)
  /\ \A r \in Req :
        (req'[r] # req[r] /\ req'[r].resp.status \in {404, 429, 500}) => usage' = usage

\* C29: the ledger gains exactly one "lesson_content" event with each lesson
\* generation that commits and one "course_syllabus" event with each course
\* created, in the same step; cached, rate-limited, NotFound and failed
\* requests add none and no event is changed or removed; and the
\* "lesson_content" events never outnumber the lessons ever generated.
C29_UsageLedger ==
  /\ [](EventsOf("lesson_content") <= Cardinality(EverGenerated))
  /\ [][OneEventPerCommit]_vars

\* The per-commit accounting of C29 alone.
C29_OneEventPerCommit == [][OneEventPerCommit]_vars

\* The tables of the store.
Store == <<users, courses, modules, lessons, progress, usage>>

\* Request r is let through the row lock of a stored lesson in this step.
PassesGate(r) ==
  /\ req[r].op = "lesson_content"
  /\ req[r].pc = "lesson_lock"
  /\ req'[r] # req[r]
  /\ req[r].target \in DOMAIN lessons

\* The step answers request r with the lesson's stored content and quiz and
\* writes nothing.
ServedFromStore(r) ==
  /\ req'[r].pc = "closing"
  /\ req'[r].resp.status = 200
  /\ req'[r].resp.content = lessons[req[r].target].content
  /\ req'[r].resp.quiz = lessons[req[r].target].quiz_data
  /\ Store' = Store

\* The steps of a lesson request before and after the gate write nothing.
LookupAndCloseWriteNothing ==
  \A r \in Req :
    (/\ req'[r] # req[r]
     /\ req'[r].op = "lesson_content"
     /\ req[r].pc \in {"idle", "closing"}) => Store' = Store

\* C30: the owner's request for a lesson that is already GENERATED (content
\* set) is answered 200 with the stored content and quiz whatever the user's
\* plan and daily lesson count, never 429, and no step of it writes to the
\* store: no lesson field, user plan, progress row or usage event.
C30_GeneratedIsServedUnchanged ==
  [][/\ LookupAndCloseWriteNothing
     /\ \A r \in Req :
          (PassesGate(r) /\ lessons[req[r].target].content # None) =>
            ServedFromStore(r)]_vars

\* C30 for the lessons whose stored content is not the empty string.
C30_NonEmptyIsServedUnchanged ==
  [][/\ LookupAndCloseWriteNothing
     /\ \A r \in Req :
          (PassesGate(r) /\ HasContent(lessons[req[r].target].content)) =>
            ServedFromStore(r)]_vars

\* A free user at the daily lesson limit is being answered 200 with the
\* stored content of a lesson generated earlier.
C30_ServedAtLimit ==
  \E r \in Req :
    /\ req[r].op = "lesson_content"
    /\ req[r].pc = "closing"
    /\ req[r].resp.status = 200
    /\ req[r].target \in DOMAIN lessons
    /\ persisted[req[r].target] = 1
    /\ lock[req[r].target] = r
    /\ users[req[r].user].plan_type = "free"
    /\ GeneratedOnDay(req[r].user, DayOf(now)) >= FREE_DAILY_LESSON_LIMIT
====
